---- MODULE Spec2Model ----
(***************************************************************************)
(* Subscription entitlement and lifecycle engine of gpra-web.              *)
(*                                                                         *)
(* Part 1 (specification Spec): the Stripe webhook reconciler and the      *)
(* pause / unpause entry points of app/billing.py acting on the            *)
(* subscriptions table.                                                    *)
(* Part 2 (specification SpecQuota): the autocreate quota counter of       *)
(* app/utils/rate_limits.py, with concurrent callers; specification        *)
(* SpecQuotaSeq runs the same functions one call at a time.                *)
(*                                                                         *)
(* Timestamps are integers counted in clock ticks; NoTime is SQL NULL.     *)
(* mrr and prices are counted in cents.                                    *)
(***************************************************************************)
EXTENDS Integers, Sequences, FiniteSets, TLC

VARIABLES
    subscriptions,  \* table subscriptions: user id -> row
    routines,       \* table routines of the tenant: set of [id, created_at]
    now,            \* wall clock (datetime.now()), in ticks
    quota,          \* quota columns of the tenant's subscriptions row
    qclock,         \* wall clock of the quota model, in slots
    callers,        \* per caller: position and locals in check / increment
    made,           \* increments of the usage counters made so far
    db,             \* tables of the account model: ab_user, subscriptions, owned records
    sweep,          \* process_scheduled_deletions: position, fetched rows, runs made
    outbox,         \* refunds created at Stripe and farewell emails attempted, per tenant
    g,              \* flask.g of the request being served
    result,         \* rows the last filtered query returned
    txn,            \* a webhook and a user action in flight on one row
    limiter,        \* the RateLimiter: backend in use, attempts per email
    clock,          \* time.time() of the rate limiter, in seconds
    answer          \* what the last check_email_rate_limit returned

billingVars == <<subscriptions, routines, now>>
quotaVars == <<quota, qclock, callers, made>>
accountVars == <<db, sweep, outbox>>
resetVars == <<limiter, clock, answer>>
requestVars == <<g, result, txn, resetVars>>
vars == <<subscriptions, routines, now, quota, qclock, callers, made,
          db, sweep, outbox, g, result, txn, limiter, clock, answer>>

----------------------------------------------------------------------------
(* Bounds of the model *)

MaxNow == 1          \* the billing clock runs over 0..MaxNow
MaxSkew == 1         \* ticks the clock may advance between two reads in one handler
MaxRoutines == 1     \* routines owned by the tenant
TicksPerDay == 2     \* resolution of the billing clock
NCallers == 2        \* concurrent callers of the metered feature
ClockSpan == 2       \* slots the quota clock runs for
MaxOps == 3          \* metered operations that succeed in one behaviour
SlotsPerHour == 2    \* resolution of the quota clock

(* Python None / SQL NULL for strings, timestamps, ids and amounts *)
None == "None"
NoTime == 0 - 1
NoId == 0
NoAmount == 0 - 1

----------------------------------------------------------------------------
(* Static configuration *)

\* app/subscription_tiers.py: the Stripe price ids of the paid tiers
BasicMonthly == "price_1SOC2mJTZIlESiBEIHJBDZii"
BasicYearly == "price_1SOC3BJTZIlESiBEnRpLW9nQ"
GoodsMonthly == "price_1SOC3eJTZIlESiBEIblnPSdf"
GoodsYearly == "price_1SOC3mJTZIlESiBEeKndWeZk"
MoreGoodsMonthly == "price_1SOC4NJTZIlESiBElUo2Xx5D"
MoreGoodsYearly == "price_1SOC4pJTZIlESiBEBt3Vowp8"
TheMostMonthly == "price_1SOC5WJTZIlESiBEsfcyxKWa"
TheMostYearly == "price_1SOC5fJTZIlESiBEvaMXyyXP"
UnknownPrice == "price_unknown"
TieredPrice == "price_tiered"

\* the loop of handle_subscription_updated over SUBSCRIPTION_TIERS:
\* first tier whose monthly or yearly price id equals price_id, else 'free'
PriceToTier(price_id) ==
    CASE price_id \in {BasicMonthly, BasicYearly} -> "basic"
      [] price_id \in {GoodsMonthly, GoodsYearly} -> "thegoods"
      [] price_id \in {MoreGoodsMonthly, MoreGoodsYearly} -> "moregoods"
      [] price_id \in {TheMostMonthly, TheMostYearly} -> "themost"
      [] OTHER -> "free"

\* timedelta(days=90) of the grace period
GraceDays == 90

timedelta_days(n) == n * TicksPerDay

\* length of a billing period carried by the events of the model, in days
PeriodDays == 30

----------------------------------------------------------------------------
(* The subscriptions table *)

Users == {1}
NoUser == 0
UnknownUser == 2

\* row inserted at registration: tier free, status active, mrr 0,
\* every other column at its model default
NewSubscription(u) ==
    [ user_id |-> u,
      stripe_customer_id |-> None,
      stripe_subscription_id |-> None,
      stripe_subscription_item_id |-> None,
      stripe_price_id |-> None,
      tier |-> "free",
      status |-> "active",
      mrr |-> 0,
      current_period_start |-> NoTime,
      current_period_end |-> NoTime,
      cancel_at_period_end |-> FALSE,
      lapse_date |-> NoTime,
      unplugged_mode |-> FALSE,
      data_deletion_date |-> NoTime,
      last_active_routine_id |-> NoId,
      last_pause_action |-> NoTime ]

\* db.query(Subscription).filter_by(user_id=...)
ByUserId(subs, uid) == {u \in DOMAIN subs : subs[u].user_id = uid}

\* db.query(Subscription).filter_by(stripe_subscription_id=...)
BySubscriptionId(subs, sid) ==
    {u \in DOMAIN subs : subs[u].stripe_subscription_id = sid}

\* rows that db.query(Routine).filter_by(user_id=...)
\*     .order_by(Routine.created_at.desc()).first() may return:
\* the order among equal created_at is left to the database
NewestRoutines(rts) ==
    {r \in rts : \A o \in rts : o.created_at <= r.created_at}

\* ids that `newest` may contribute: NoId when the tenant has no routine
NewestIds(rts) ==
    IF rts = {} THEN {NoId} ELSE {r.id : r \in NewestRoutines(rts)}

----------------------------------------------------------------------------
(* Webhook events.  A Stripe price object carries id, unit_amount (cents)  *)
(* and the recurring interval; unit_amount is null for tiered prices.      *)

SubIds == {"sub_X", "sub_Y"}
CustomerId == "cus_A"

Price(id, amount, interval) ==
    [id |-> id, unit_amount |-> amount, interval |-> interval]

EventPrices ==
    { Price(BasicMonthly, 300, "month"),
      Price(GoodsYearly, 5400, "year"),
      Price(UnknownPrice, 1200, "month"),
      Price(TieredPrice, NoAmount, "month") }

MetadataTiers == {"basic", "thegoods"}

\* Stripe item id of a subscription
ItemOf(sid) == IF sid = "sub_X" THEN "si_X" ELSE "si_Y"

\* start of the current billing period of a subscription: sub_X is the
\* earlier subscription, sub_Y one that started a tick later; a period
\* (PeriodDays days) outlasts the clock of the model, so every event of a
\* subscription carries the same period
PeriodStartOf(sid) == IF sid = "sub_X" THEN 0 ELSE 1

\* events whose metadata names no user, or a user without a row, are
\* dropped by the handlers before any other field is read: one event of
\* each kind stands for them
CheckoutEvents ==
    [ type : {"checkout.session.completed"},
      user_id : {1},
      customer : {CustomerId},
      subscription : SubIds ]
    \cup
    [ type : {"checkout.session.completed"},
      user_id : {NoUser, UnknownUser},
      customer : {CustomerId},
      subscription : {"sub_X"} ]

\* metadata tier and price are independent fields of the event: matching
\* pairs, a mismatched pair, and a price without unit_amount
CreatedOffers ==
    { <<"basic", Price(BasicMonthly, 300, "month")>>,
      <<"thegoods", Price(GoodsYearly, 5400, "year")>>,
      <<"basic", Price(GoodsYearly, 5400, "year")>>,
      <<"thegoods", Price(TieredPrice, NoAmount, "month")>> }

CreatedEvents ==
    { [ type |-> "customer.subscription.created",
        id |-> id,
        user_id |-> 1,
        tier |-> offer[1],
        customer |-> CustomerId,
        price |-> offer[2],
        status |-> status,
        current_period_start |-> PeriodStartOf(id),
        cancel_at_period_end |-> FALSE,
        cancel_at |-> NoTime ] :
      id \in SubIds, offer \in CreatedOffers,
      status \in {"active", "trialing", "incomplete"} }
    \cup
    { [ type |-> "customer.subscription.created",
        id |-> "sub_X",
        user_id |-> u,
        tier |-> "basic",
        customer |-> CustomerId,
        price |-> Price(BasicMonthly, 300, "month"),
        status |-> "active",
        current_period_start |-> PeriodStartOf("sub_X"),
        cancel_at_period_end |-> FALSE,
        cancel_at |-> NoTime ] :
      u \in {NoUser, UnknownUser} }

\* status with cancel_at_period_end and cancel_at: no cancellation in each
\* status; for an active subscription also cancellation at period end and
\* cancellation at a scheduled time
UpdatedStates ==
    { <<st, FALSE, NoTime>> : st \in {"active", "trialing", "past_due"} }
        \cup { <<"active", TRUE, NoTime>>,
               <<"active", FALSE, timedelta_days(PeriodDays)>> }

UpdatedEvents ==
    { [ type |-> "customer.subscription.updated",
        id |-> id,
        price |-> price,
        status |-> c[1],
        current_period_start |-> PeriodStartOf(id),
        cancel_at_period_end |-> c[2],
        cancel_at |-> c[3] ] :
      id \in SubIds, price \in EventPrices, c \in UpdatedStates }

DeletedEvents ==
    [ type : {"customer.subscription.deleted"},
      id : SubIds,
      reason : {"cancellation_requested", "payment_failed", None} ]

PaymentSucceededEvents ==
    [ type : {"invoice.payment_succeeded"},
      subscription : SubIds \cup {None} ]

\* an invoice without a subscription is dropped before
\* last_finalization_error is read
PaymentFailedEvents ==
    [ type : {"invoice.payment_failed"},
      subscription : SubIds,
      last_finalization_error : {"absent", "null", "object"} ]
    \cup
    [ type : {"invoice.payment_failed"},
      subscription : {None},
      last_finalization_error : {"absent"} ]

OtherEvents == [ type : {"customer.created"} ]

\* the events Stripe may deliver
Events ==
    CheckoutEvents \cup CreatedEvents \cup UpdatedEvents
        \cup DeletedEvents \cup PaymentSucceededEvents
        \cup PaymentFailedEvents \cup OtherEvents

----------------------------------------------------------------------------
(* Results of a handler: the committed table, whether an exception left    *)
(* the handler, and the instruction sent to the billing provider.          *)

NoCall == [kind |-> "none", id |-> None]
CancelCall(sid) == [kind |-> "Subscription.cancel", id |-> sid]
ModifyCall(sid, flag) ==
    [kind |-> IF flag THEN "Subscription.modify(cancel_at_period_end=True)"
                      ELSE "Subscription.modify(cancel_at_period_end=False)",
     id |-> sid]

Done(subs, call) == [subs |-> subs, raised |-> FALSE, call |-> call]
Raised(subs, call) == [subs |-> subs, raised |-> TRUE, call |-> call]

\* the one row a query returned
TheRow(S) == CHOOSE u \in S : TRUE

\* amount / 100, divided by 12 for a yearly interval; kept in cents
MonthlyValue(price) ==
    IF price.interval = "year" THEN price.unit_amount \div 12
                               ELSE price.unit_amount

handle_checkout_completed(subs, session) ==
    IF session.user_id = NoUser THEN Done(subs, NoCall)
    ELSE LET found == ByUserId(subs, session.user_id) IN
         IF found = {} THEN Done(subs, NoCall)
         ELSE LET u == TheRow(found) IN
              Done([subs EXCEPT
                        ![u].stripe_customer_id = session.customer,
                        ![u].stripe_subscription_id = session.subscription],
                   NoCall)

\* handle_subscription_created without the clearing of the lapse fields
handle_subscription_created_keeps_grace(subs, ev) ==
    IF ev.user_id = NoUser THEN Done(subs, NoCall)
    ELSE LET found == ByUserId(subs, ev.user_id) IN
         IF found = {} THEN Done(subs, NoCall)
         ELSE LET u == TheRow(found)
                  old == subs[u].stripe_subscription_id
                  call == IF /\ old # None
                             /\ old # ev.id
                             /\ subs[u].status \in {"active", "trialing", "past_due"}
                          THEN CancelCall(old) ELSE NoCall
              IN
              IF ev.price.unit_amount = NoAmount
              THEN Raised(subs, call)
              ELSE Done([subs EXCEPT
                        ![u].stripe_subscription_id = ev.id,
                        ![u].stripe_customer_id = ev.customer,
                        ![u].stripe_price_id = ev.price.id,
                        ![u].stripe_subscription_item_id = ItemOf(ev.id),
                        ![u].tier = ev.tier,
                        ![u].status = ev.status,
                        ![u].current_period_start = ev.current_period_start,
                        ![u].current_period_end =
                            ev.current_period_start + timedelta_days(PeriodDays),
                        ![u].cancel_at_period_end = ev.cancel_at_period_end,
                        ![u].mrr = MonthlyValue(ev.price)],
                   call)

\* stripe.Subscription.cancel is called inside try / except
\* InvalidRequestError / except StripeError: whether the call succeeds or
\* fails, the handler goes on with the same assignments, so the outcome of
\* the call is no input of the operator
handle_subscription_created(subs, ev) ==
    IF ev.user_id = NoUser THEN Done(subs, NoCall)
    ELSE LET found == ByUserId(subs, ev.user_id) IN
         IF found = {} THEN Done(subs, NoCall)
         ELSE LET u == TheRow(found)
                  old == subs[u].stripe_subscription_id
                  call == IF /\ old # None
                             /\ old # ev.id
                             /\ subs[u].status \in {"active", "trialing", "past_due"}
                          THEN CancelCall(old) ELSE NoCall
                  healthy == ev.status \in {"active", "trialing"}
              IN
              IF ev.price.unit_amount = NoAmount
              THEN Raised(subs, call)   \* TypeError on None / 100, before the commit
              ELSE Done([subs EXCEPT
                        ![u].stripe_subscription_id = ev.id,
                        ![u].stripe_customer_id = ev.customer,
                        ![u].stripe_price_id = ev.price.id,
                        ![u].stripe_subscription_item_id = ItemOf(ev.id),
                        ![u].tier = ev.tier,
                        ![u].status = ev.status,
                        ![u].current_period_start = ev.current_period_start,
                        ![u].current_period_end =
                            ev.current_period_start + timedelta_days(PeriodDays),
                        ![u].cancel_at_period_end = ev.cancel_at_period_end,
                        ![u].mrr = MonthlyValue(ev.price),
                        ![u].unplugged_mode =
                            IF healthy THEN FALSE ELSE @,
                        ![u].lapse_date = IF healthy THEN NoTime ELSE @,
                        ![u].data_deletion_date =
                            IF healthy THEN NoTime ELSE @],
                   call)

handle_subscription_updated(subs, ev) ==
    LET found == BySubscriptionId(subs, ev.id) IN
    IF found = {} THEN Done(subs, NoCall)
    ELSE LET u == TheRow(found)
             renewed == /\ ev.status \in {"active", "trialing"}
                        /\ ~(ev.cancel_at_period_end \/ ev.cancel_at # NoTime)
         IN
         IF ev.price.unit_amount = NoAmount
         THEN Raised(subs, NoCall)   \* TypeError on None / 100, before the commit
         ELSE Done([subs EXCEPT
                   ![u].stripe_price_id = ev.price.id,
                   ![u].stripe_subscription_item_id = ItemOf(ev.id),
                   ![u].tier = PriceToTier(ev.price.id),
                   ![u].status = ev.status,
                   ![u].current_period_start = ev.current_period_start,
                   ![u].current_period_end =
                       ev.current_period_start + timedelta_days(PeriodDays),
                   ![u].cancel_at_period_end = ev.cancel_at_period_end,
                   ![u].mrr = MonthlyValue(ev.price),
                   ![u].unplugged_mode = IF renewed THEN FALSE ELSE @,
                   ![u].lapse_date = IF renewed THEN NoTime ELSE @,
                   ![u].data_deletion_date = IF renewed THEN NoTime ELSE @],
              NoCall)

\* handle_subscription_deleted without the two assignments that clear
\* stripe_subscription_id: a redelivery then finds the row again
handle_subscription_deleted_keeps_ref(subs, ev, t1, t2, newest) ==
    LET found == BySubscriptionId(subs, ev.id) IN
    IF found = {} THEN Done(subs, NoCall)
    ELSE LET u == TheRow(found)
             downgraded == [subs EXCEPT
                   ![u].tier = "free",
                   ![u].status = "canceled",
                   ![u].mrr = 0,
                   ![u].stripe_price_id = None,
                   ![u].cancel_at_period_end = FALSE]
         IN
         IF ev.reason = "cancellation_requested"
         THEN Done([downgraded EXCEPT
                   ![u].unplugged_mode = TRUE,
                   ![u].lapse_date = t1,
                   ![u].data_deletion_date = t2 + timedelta_days(GraceDays),
                   ![u].last_active_routine_id =
                       IF @ # NoId THEN @ ELSE newest],
              NoCall)
         ELSE Done(downgraded, NoCall)

\* t1, t2: the two reads of datetime.now(); newest: the id the routine
\* query returned (NoId when the tenant has no routine)
handle_subscription_deleted(subs, ev, t1, t2, newest) ==
    LET found == BySubscriptionId(subs, ev.id) IN
    IF found = {} THEN Done(subs, NoCall)
    ELSE LET u == TheRow(found)
             downgraded == [subs EXCEPT
                   ![u].tier = "free",
                   ![u].status = "canceled",
                   ![u].mrr = 0,
                   ![u].stripe_subscription_id = None,
                   ![u].stripe_price_id = None,
                   ![u].cancel_at_period_end = FALSE]
         IN
         IF ev.reason = "cancellation_requested"
         THEN Done([downgraded EXCEPT
                   ![u].unplugged_mode = TRUE,
                   ![u].lapse_date = t1,
                   ![u].data_deletion_date = t2 + timedelta_days(GraceDays),
                   ![u].last_active_routine_id =
                       IF @ # NoId THEN @ ELSE newest],
              NoCall)
         ELSE Done(downgraded, NoCall)

\* handle_payment_succeeded that leaves the grace dates in place
handle_payment_succeeded_keeps_dates(subs, invoice) ==
    IF invoice.subscription = None THEN Done(subs, NoCall)
    ELSE LET found == BySubscriptionId(subs, invoice.subscription) IN
         IF found = {} \/ subs[TheRow(found)].status = "active"
         THEN Done(subs, NoCall)
         ELSE LET u == TheRow(found) IN
              Done([subs EXCEPT
                        ![u].status = "active",
                        ![u].unplugged_mode = FALSE],
                   NoCall)

handle_payment_succeeded(subs, invoice) ==
    IF invoice.subscription = None THEN Done(subs, NoCall)
    ELSE LET found == BySubscriptionId(subs, invoice.subscription) IN
         IF found = {} \/ subs[TheRow(found)].status = "active"
         THEN Done(subs, NoCall)
         ELSE LET u == TheRow(found) IN
              Done([subs EXCEPT
                        ![u].status = "active",
                        ![u].unplugged_mode = FALSE,
                        ![u].lapse_date = NoTime,
                        ![u].data_deletion_date = NoTime],
                   NoCall)

\* handle_payment_failed that also zeroes mrr
handle_payment_failed_zeroes_mrr(subs, invoice) ==
    IF invoice.subscription = None THEN Done(subs, NoCall)
    ELSE LET found == BySubscriptionId(subs, invoice.subscription) IN
         IF found = {} THEN Done(subs, NoCall)
         ELSE LET u == TheRow(found)
                  committed == [subs EXCEPT ![u].status = "past_due",
                                            ![u].mrr = 0]
              IN
              IF invoice.last_finalization_error = "null"
              THEN Raised(committed, NoCall)
              ELSE Done(committed, NoCall)

handle_payment_failed(subs, invoice) ==
    IF invoice.subscription = None THEN Done(subs, NoCall)
    ELSE LET found == BySubscriptionId(subs, invoice.subscription) IN
         IF found = {} THEN Done(subs, NoCall)
         ELSE LET u == TheRow(found)
                  committed == [subs EXCEPT ![u].status = "past_due"]
              IN
              \* invoice.get('last_finalization_error', {}) is None when the
              \* key is present with a null value: .get on it raises after
              \* the commit
              IF invoice.last_finalization_error = "null"
              THEN Raised(committed, NoCall)
              ELSE Done(committed, NoCall)

\* A delivery: whether STRIPE_WEBHOOK_SECRET is set, what
\* stripe.Webhook.construct_event does with payload and signature, and the
\* event the payload carries.
Verifications == {"ok", "SignatureVerificationError", "ValueError", "no_secret"}

Response(subs, code, status, handler, call) ==
    [subs |-> subs, code |-> code, status |-> status,
     handler |-> handler, call |-> call]

\* the dispatch of handle_stripe_webhook on event['type']
Dispatch(subs, ev, t1, t2, newest) ==
    CASE ev.type = "checkout.session.completed" ->
            handle_checkout_completed(subs, ev)
      [] ev.type = "customer.subscription.created" ->
            handle_subscription_created(subs, ev)
      [] ev.type = "customer.subscription.updated" ->
            handle_subscription_updated(subs, ev)
      [] ev.type = "customer.subscription.deleted" ->
            handle_subscription_deleted(subs, ev, t1, t2, newest)
      [] ev.type = "invoice.payment_succeeded" ->
            handle_payment_succeeded(subs, ev)
      [] ev.type = "invoice.payment_failed" ->
            handle_payment_failed(subs, ev)
      [] OTHER -> Done(subs, NoCall)

HandledTypes ==
    { "checkout.session.completed", "customer.subscription.created",
      "customer.subscription.updated", "customer.subscription.deleted",
      "invoice.payment_succeeded", "invoice.payment_failed" }

\* handle_stripe_webhook without the return in the
\* SignatureVerificationError branch: the event is dispatched all the same
handle_stripe_webhook_ignores_signature(subs, verification, ev, t1, t2, newest) ==
    CASE verification = "no_secret" ->
            Response(subs, 500, "Webhook secret not configured", None, NoCall)
      [] verification = "ValueError" ->
            Response(subs, 400, "Invalid payload", None, NoCall)
      [] OTHER ->
            LET r == Dispatch(subs, ev, t1, t2, newest)
                handler == IF ev.type \in HandledTypes THEN ev.type ELSE None
            IN  IF r.raised
                THEN Response(r.subs, 200, "error", handler, r.call)
                ELSE Response(r.subs, 200, "success", handler, r.call)

\* handle_stripe_webhook without the except clause around the dispatch:
\* an exception of a handler reaches the framework, which answers 500
handle_stripe_webhook_propagates(subs, verification, ev, t1, t2, newest) ==
    CASE verification = "no_secret" ->
            Response(subs, 500, "Webhook secret not configured", None, NoCall)
      [] verification = "ValueError" ->
            Response(subs, 400, "Invalid payload", None, NoCall)
      [] verification = "SignatureVerificationError" ->
            Response(subs, 400, "Invalid signature", None, NoCall)
      [] OTHER ->
            LET r == Dispatch(subs, ev, t1, t2, newest)
                handler == IF ev.type \in HandledTypes THEN ev.type ELSE None
            IN  IF r.raised
                THEN Response(r.subs, 500, "Internal Server Error", handler, r.call)
                ELSE Response(r.subs, 200, "success", handler, r.call)

handle_stripe_webhook(subs, verification, ev, t1, t2, newest) ==
    CASE verification = "no_secret" ->
            Response(subs, 500, "Webhook secret not configured", None, NoCall)
      [] verification = "ValueError" ->
            Response(subs, 400, "Invalid payload", None, NoCall)
      [] verification = "SignatureVerificationError" ->
            Response(subs, 400, "Invalid signature", None, NoCall)
      [] OTHER ->
            LET r == Dispatch(subs, ev, t1, t2, newest)
                handler == IF ev.type \in HandledTypes THEN ev.type ELSE None
            IN  IF r.raised
                THEN Response(r.subs, 200, "error", handler, r.call)
                ELSE Response(r.subs, 200, "success", handler, r.call)

----------------------------------------------------------------------------
(* User entry points: pause (set_unplugged_mode) and unpause.              *)
(* stripe: what stripe.Subscription.modify does when it is called.         *)

StripeOutcomes == {"ok", "StripeError", "Exception"}

\* the once-per-billing-period test shared by pause and unpause
PausedThisPeriod(row) ==
    /\ row.last_pause_action # NoTime
    /\ row.current_period_start # NoTime
    /\ row.last_pause_action >= row.current_period_start

\* set_unplugged_mode with the timestamp recorded and committed before the
\* once-per-period test
set_unplugged_mode_records_first(subs, uid, stripe, t, newest) ==
    IF uid = NoUser
    THEN Response(subs, 401, "Not authenticated", None, NoCall)
    ELSE LET found == ByUserId(subs, uid) IN
    IF found = {}
    THEN Response(subs, 404, "No subscription found", None, NoCall)
    ELSE LET u == TheRow(found)
             call == IF subs[u].stripe_subscription_id # None
                     THEN ModifyCall(subs[u].stripe_subscription_id, TRUE)
                     ELSE NoCall
             recorded == [subs EXCEPT ![u].last_pause_action = t]
             changed == [subs EXCEPT
                   ![u].last_pause_action = t,
                   ![u].last_active_routine_id =
                       IF @ # NoId THEN @ ELSE newest]
         IN
         IF PausedThisPeriod(subs[u])
         THEN Response(recorded, 429, "once per billing period", None, NoCall)
         ELSE IF call # NoCall /\ stripe # "ok"
         THEN Response(subs, 500, stripe, None, call)
         ELSE Response(changed, 200, "success", None, call)

set_unplugged_mode(subs, uid, stripe, t, newest) ==
    IF uid = NoUser
    THEN Response(subs, 401, "Not authenticated", None, NoCall)
    ELSE LET found == ByUserId(subs, uid) IN
    IF found = {}
    THEN Response(subs, 404, "No subscription found", None, NoCall)
    ELSE LET u == TheRow(found)
             call == IF subs[u].stripe_subscription_id # None
                     THEN ModifyCall(subs[u].stripe_subscription_id, TRUE)
                     ELSE NoCall
             changed == [subs EXCEPT
                   ![u].last_pause_action = t,
                   ![u].last_active_routine_id =
                       IF @ # NoId THEN @ ELSE newest]
         IN
         IF PausedThisPeriod(subs[u])
         THEN Response(subs, 429, "once per billing period", None, NoCall)
         ELSE IF call # NoCall /\ stripe # "ok"
         THEN Response(subs, 500, stripe, None, call)   \* db.rollback()
         ELSE Response(changed, 200, "success", None, call)

unpause_subscription(subs, uid, stripe, t) ==
    IF uid = NoUser
    THEN Response(subs, 401, "Not authenticated", None, NoCall)
    ELSE LET found == ByUserId(subs, uid) IN
    IF found = {}
    THEN Response(subs, 404, "No subscription found", None, NoCall)
    ELSE LET u == TheRow(found)
             call == IF subs[u].stripe_subscription_id # None
                     THEN ModifyCall(subs[u].stripe_subscription_id, FALSE)
                     ELSE NoCall
             changed == [subs EXCEPT
                   ![u].unplugged_mode = FALSE,
                   ![u].last_pause_action = t,
                   ![u].lapse_date = NoTime,
                   ![u].data_deletion_date = NoTime]
         IN
         IF ~subs[u].unplugged_mode
         THEN Response(subs, 400, "Subscription is not paused", None, NoCall)
         ELSE IF PausedThisPeriod(subs[u])
         THEN Response(subs, 429, "once per billing period", None, NoCall)
         ELSE IF call # NoCall /\ stripe # "ok"
         THEN Response(subs, 500, stripe, None, call)   \* db.rollback()
         ELSE Response(changed, 200, "success", None, call)

----------------------------------------------------------------------------
(* The billing state machine *)

\* the routine tables of the model: ids 1..n in creation order, created
\* before the clock of the model starts; the first at FirstCreatedAt, a
\* later one at the same tick as its predecessor or one tick after it
FirstCreatedAt == 0 - 9

RoutineTables ==
    UNION { { {[id |-> i, created_at |-> c[i]] : i \in 1..n} :
              c \in { f \in [1..n -> FirstCreatedAt..(FirstCreatedAt + n)] :
                        /\ n > 0 => f[1] = FirstCreatedAt
                        /\ \A i \in 1..n : i > 1 => f[i] - f[i-1] \in {0, 1} } } :
            n \in 0..MaxRoutines }

\* no request is being served and nothing is in flight
NoRequest ==
    /\ g = <<>>
    /\ result = [parked |-> TRUE]
    /\ txn = [pc |-> "idle"]
    /\ limiter = [parked |-> TRUE]
    /\ clock = 0
    /\ answer = [parked |-> TRUE]

AccountsParked ==
    /\ db = [parked |-> TRUE]
    /\ sweep = [parked |-> TRUE]
    /\ outbox = [parked |-> TRUE]
    /\ NoRequest

QuotaParked ==
    /\ quota = [parked |-> TRUE]
    /\ qclock = 0
    /\ callers = <<>>
    /\ made = 0

Init ==
    /\ subscriptions = [u \in Users |-> NewSubscription(u)]
    /\ routines \in RoutineTables
    /\ now = 0
    /\ QuotaParked
    /\ AccountsParked

\* POST to the webhook endpoint, rejected before an event exists
WebhookRejected ==
    \E verification \in Verifications \ {"ok"} :
        /\ LET r == handle_stripe_webhook(subscriptions, verification,
                                          [type |-> None], now, now, NoId)
           IN subscriptions' = r.subs
        /\ UNCHANGED <<routines, now>>
        /\ UNCHANGED <<quotaVars, accountVars, requestVars>>

\* POST to the webhook endpoint with a verified event
Webhook ==
    \E ev \in Events, newest \in NewestIds(routines) :
      \E skew \in IF ev.type = "customer.subscription.deleted"
                  THEN 0..MaxSkew ELSE {0} :
        /\ now + skew <= MaxNow
        /\ LET r == handle_stripe_webhook(subscriptions, "ok", ev,
                                          now, now + skew, newest)
           IN subscriptions' = r.subs
        /\ now' = now + skew
        /\ UNCHANGED routines
        /\ UNCHANGED <<quotaVars, accountVars, requestVars>>

\* SUBSCRIPTION_TIERS[tier]['stripe_price_id_' + billing_period]
PriceOf(tier, billing_period) ==
    CASE tier = "basic" ->
            IF billing_period = "yearly" THEN BasicYearly ELSE BasicMonthly
      [] tier = "thegoods" ->
            IF billing_period = "yearly" THEN GoodsYearly ELSE GoodsMonthly
      [] tier = "moregoods" ->
            IF billing_period = "yearly" THEN MoreGoodsYearly
                                         ELSE MoreGoodsMonthly
      [] tier = "themost" ->
            IF billing_period = "yearly" THEN TheMostYearly
                                         ELSE TheMostMonthly
      [] OTHER -> None

\* keys of SUBSCRIPTION_TIERS a customer can buy
PaidTiers == {"basic", "thegoods", "moregoods", "themost"}

SessionCall(kind, customer) == [kind |-> kind, id |-> customer]
PriceCall(sid) == [kind |-> "Subscription.modify(items, metadata)", id |-> sid]

\* the answer of a Stripe call: the success code, 400 for StripeError,
\* 500 for any other exception; the table is never written
StripeAnswer(subs, stripe, call) ==
    CASE stripe = "ok" -> Response(subs, 200, "success", None, call)
      [] stripe = "StripeError" -> Response(subs, 400, "Stripe error", None, call)
      [] OTHER -> Response(subs, 500, "Failed", None, call)

\* create_checkout_session: start_checkout(tenant, tier, period)
create_checkout_session(subs, uid, tier, billing_period, stripe) ==
    IF tier \notin PaidTiers
    THEN Response(subs, 400, "Invalid tier", None, NoCall)
    ELSE IF uid = NoUser
    THEN Response(subs, 401, "Not authenticated", None, NoCall)
    ELSE LET found == ByUserId(subs, uid) IN
         IF /\ found # {}
            /\ subs[TheRow(found)].stripe_subscription_id # None
            /\ subs[TheRow(found)].status \in {"active", "trialing"}
         THEN Response(subs, 400, "use_update_endpoint", None, NoCall)
         ELSE StripeAnswer(subs, stripe,
                  SessionCall("checkout.Session.create",
                      IF found # {} THEN subs[TheRow(found)].stripe_customer_id
                                    ELSE None))

\* what stripe.Subscription.retrieve and modify may answer in
\* update_existing_subscription: the outcomes of a Stripe call, and a
\* subscription that Stripe no longer holds as active or trialing
UpdateOutcomes == StripeOutcomes \cup {"not active"}

\* update_existing_subscription that stores the new tier and price at once
update_existing_subscription_writes_tier(subs, uid, new_tier, new_billing_period, stripe) ==
    IF uid = NoUser
    THEN Response(subs, 401, "Not authenticated", None, NoCall)
    ELSE LET found == ByUserId(subs, uid) IN
    IF found = {} \/ subs[TheRow(found)].stripe_subscription_id = None
    THEN Response(subs, 404, "No active subscription found", None, NoCall)
    ELSE IF new_tier \notin PaidTiers
    THEN Response(subs, 400, "Invalid tier", None, NoCall)
    ELSE LET u == TheRow(found)
             new_price_id == PriceOf(new_tier, new_billing_period)
         IN
         IF subs[u].stripe_price_id = new_price_id
         THEN Response(subs, 200, "Already on this plan", None, NoCall)
         ELSE IF stripe = "not active"
         THEN Response(subs, 400, "Subscription is not active", None, NoCall)
         ELSE IF stripe = "ok"
         THEN Response([subs EXCEPT ![u].tier = new_tier,
                                    ![u].stripe_price_id = new_price_id],
                       200, "success", None,
                       PriceCall(subs[u].stripe_subscription_id))
         ELSE StripeAnswer(subs, stripe,
                           PriceCall(subs[u].stripe_subscription_id))

\* update_existing_subscription: change_tier(tenant, tier, period).  The
\* table is only read; customer.subscription.updated brings the change.
update_existing_subscription(subs, uid, new_tier, new_billing_period, stripe) ==
    IF uid = NoUser
    THEN Response(subs, 401, "Not authenticated", None, NoCall)
    ELSE LET found == ByUserId(subs, uid) IN
    IF found = {} \/ subs[TheRow(found)].stripe_subscription_id = None
    THEN Response(subs, 404, "No active subscription found", None, NoCall)
    ELSE IF new_tier \notin PaidTiers
    THEN Response(subs, 400, "Invalid tier", None, NoCall)
    ELSE LET u == TheRow(found)
             new_price_id == PriceOf(new_tier, new_billing_period)
         IN
         IF subs[u].stripe_price_id = new_price_id
         THEN Response(subs, 200, "Already on this plan", None, NoCall)
         ELSE IF stripe = "not active"
         THEN Response(subs, 400, "Subscription is not active", None, NoCall)
         ELSE StripeAnswer(subs, stripe,
                           PriceCall(subs[u].stripe_subscription_id))

\* create_portal_session: open_billing_portal(tenant)
create_portal_session(subs, uid, stripe) ==
    IF uid = NoUser
    THEN Response(subs, 401, "Not authenticated", None, NoCall)
    ELSE LET found == ByUserId(subs, uid) IN
    IF found = {} \/ subs[TheRow(found)].stripe_customer_id = None
    THEN Response(subs, 404, "No active subscription found", None, NoCall)
    ELSE StripeAnswer(subs, stripe,
             SessionCall("billing_portal.Session.create",
                         subs[TheRow(found)].stripe_customer_id))

\* resume_subscription: a new checkout session for the tenant's customer
resume_subscription(subs, uid, stripe) ==
    IF uid = NoUser
    THEN Response(subs, 401, "Not authenticated", None, NoCall)
    ELSE LET found == ByUserId(subs, uid) IN
    IF found = {} \/ subs[TheRow(found)].stripe_customer_id = None
    THEN Response(subs, 404, "No subscription found", None, NoCall)
    ELSE StripeAnswer(subs, stripe,
             SessionCall("checkout.Session.create",
                         subs[TheRow(found)].stripe_customer_id))

\* the requests of the model: an anonymous request, a user without a
\* subscription row, and the tenant with each outcome of the Stripe call
UserRequests ==
    { <<NoUser, "ok">>, <<UnknownUser, "ok">> }
        \cup { <<1, stripe>> : stripe \in StripeOutcomes }

\* the pause button
Pause ==
    \E req \in UserRequests, newest \in NewestIds(routines) :
        /\ LET r == set_unplugged_mode(subscriptions, req[1], req[2],
                                       now, newest)
           IN subscriptions' = r.subs
        /\ UNCHANGED <<routines, now>>
        /\ UNCHANGED <<quotaVars, accountVars, requestVars>>

\* the unpause button
Unpause ==
    \E req \in UserRequests :
        /\ LET r == unpause_subscription(subscriptions, req[1], req[2], now)
           IN subscriptions' = r.subs
        /\ UNCHANGED <<routines, now>>
        /\ UNCHANGED <<quotaVars, accountVars, requestVars>>

\* tier and billing period a request may name
PlanChoices ==
    { <<"thegoods", "yearly">>, <<"basic", "monthly">>, <<"free", "monthly">> }

\* the upgrade / downgrade button
ChangeTier ==
    \E req \in UserRequests, plan \in PlanChoices,
       stripe \in UpdateOutcomes :
        /\ LET r == update_existing_subscription(subscriptions, req[1],
                                                plan[1], plan[2], stripe)
           IN subscriptions' = r.subs
        /\ UNCHANGED <<routines, now>>
        /\ UNCHANGED <<quotaVars, accountVars, requestVars>>

\* the subscribe button
Checkout ==
    \E req \in UserRequests, plan \in PlanChoices :
        /\ LET r == create_checkout_session(subscriptions, req[1],
                                           plan[1], plan[2], req[2])
           IN subscriptions' = r.subs
        /\ UNCHANGED <<routines, now>>
        /\ UNCHANGED <<quotaVars, accountVars, requestVars>>

\* the manage-subscription and the resume buttons
Portal ==
    \E req \in UserRequests :
        /\ LET r == create_portal_session(subscriptions, req[1], req[2])
           IN subscriptions' = r.subs
        /\ UNCHANGED <<routines, now>>
        /\ UNCHANGED <<quotaVars, accountVars, requestVars>>

Resume ==
    \E req \in UserRequests :
        /\ LET r == resume_subscription(subscriptions, req[1], req[2])
           IN subscriptions' = r.subs
        /\ UNCHANGED <<routines, now>>
        /\ UNCHANGED <<quotaVars, accountVars, requestVars>>

\* time passes
Tick ==
    /\ now < MaxNow
    /\ now' = now + 1
    /\ UNCHANGED <<subscriptions, routines>>
    /\ UNCHANGED <<quotaVars, accountVars, requestVars>>

Next ==
    \/ WebhookRejected \/ Webhook \/ Pause \/ Unpause
    \/ ChangeTier \/ Checkout \/ Portal \/ Resume \/ Tick

Spec == Init /\ [][Next]_vars

----------------------------------------------------------------------------
(* Properties of the webhook reconciler *)

\* the clock readings a handler may make from tick t on: the first read
\* and a second read up to MaxSkew ticks later
Readings(t) == { <<t + a, t + a + b>> : a \in 0..1, b \in 0..MaxSkew }

\* the table after one verified delivery of ev
Delivered(subs, ev, reading, newest) ==
    handle_stripe_webhook(subs, "ok", ev, reading[1], reading[2], newest).subs

\* only handle_subscription_deleted reads the clock and the routines
ReadingsFor(ev, t) ==
    IF ev.type = "customer.subscription.deleted"
    THEN Readings(t) ELSE { <<t, t>> }

NewestFor(ev) ==
    IF ev.type = "customer.subscription.deleted"
    THEN NewestIds(routines) ELSE { NoId }

\* C1: in every reachable state and for every verified event, delivering
\* the event a second time (at the same or a later time) leaves the
\* subscriptions table as the first delivery left it.
C1_WebhookIdempotent ==
    \A ev \in Events :
      \A r1 \in ReadingsFor(ev, now), n1 \in NewestFor(ev) :
        LET once == Delivered(subscriptions, ev, r1, n1) IN
        \A r2 \in ReadingsFor(ev, r1[2]), n2 \in NewestFor(ev) :
            Delivered(once, ev, r2, n2) = once

\* C1 witness: the tenant is in the grace period a subscription.deleted
\* event opened, and an event exists whose first delivery changes the row
C1_Witness ==
    /\ subscriptions[1].unplugged_mode
    /\ subscriptions[1].status = "canceled"
    /\ \E ev \in Events :
          Delivered(subscriptions, ev, <<now, now>>, NoId) # subscriptions

\* C2: when the tenant holds subscription Y and subscription.updated for
\* Y is delivered before subscription.created for another subscription X,
\* the row afterwards still refers to Y and carries the tier and price of
\* the update.
C2_OutOfOrderSafety ==
    \A e2 \in UpdatedEvents, e1 \in CreatedEvents :
        ( /\ subscriptions[1].stripe_subscription_id = e2.id
          /\ e1.user_id = 1
          /\ e1.id # e2.id
          /\ e1.price.unit_amount # NoAmount
          /\ e2.price.unit_amount # NoAmount )
        =>
        LET after2 == Delivered(subscriptions, e2, <<now, now>>, NoId)
            after1 == Delivered(after2, e1, <<now, now>>, NoId)
        IN  /\ after1[1].stripe_subscription_id = e2.id
            /\ after1[1].stripe_price_id = e2.price.id
            /\ after1[1].tier = PriceToTier(e2.price.id)

\* C3: a subscription whose status is neither active nor trialing has a
\* monthly recurring value of 0.
C3_MrrZeroUnlessHealthy ==
    \A u \in Users :
        subscriptions[u].status \notin {"active", "trialing"}
            => subscriptions[u].mrr = 0

\* C4: while unplugged_mode is set, data_deletion_date is lapse_date plus
\* exactly 90 days.
C4_GracePeriodBound ==
    \A u \in Users :
        subscriptions[u].unplugged_mode
            => subscriptions[u].data_deletion_date
                 = subscriptions[u].lapse_date + timedelta_days(GraceDays)

\* C5: a delivery whose signature fails verification is answered with
\* status 400, runs no handler, sends nothing to the billing provider and
\* leaves the subscriptions table as it was, whatever event it carries.
C5_BadSignatureRejected ==
    \A ev \in Events :
      \A rd \in ReadingsFor(ev, now), n \in NewestFor(ev) :
        LET r == handle_stripe_webhook(subscriptions,
                     "SignatureVerificationError", ev, rd[1], rd[2], n)
        IN  /\ r.code = 400
            /\ r.handler = None
            /\ r.call = NoCall
            /\ r.subs = subscriptions

\* C5 witness: the tenant holds a Stripe subscription, and the payload
\* carries an event that would change the row had it been verified
C5_Witness ==
    /\ subscriptions[1].stripe_subscription_id # None
    /\ \E ev \in Events :
          /\ Delivered(subscriptions, ev, <<now, now>>, NoId) # subscriptions
          /\ handle_stripe_webhook(subscriptions,
                 "SignatureVerificationError", ev, now, now, NoId).subs
               = subscriptions

\* C6: a verified delivery is answered with status 200 also when the
\* handler of its event raises.
C6_VerifiedAlwaysAcknowledged ==
    \A ev \in Events :
      \A rd \in ReadingsFor(ev, now), n \in NewestFor(ev) :
        handle_stripe_webhook(subscriptions, "ok", ev, rd[1], rd[2], n).code
            = 200

\* C6 witness: the tenant holds a Stripe subscription and an event exists
\* whose handler changes the row and then raises
C6_Witness ==
    \E ev \in Events :
        /\ subscriptions[1].stripe_subscription_id # None
        /\ Dispatch(subscriptions, ev, now, now, NoId).raised
        /\ Dispatch(subscriptions, ev, now, now, NoId).subs # subscriptions
        /\ handle_stripe_webhook(subscriptions, "ok", ev, now, now, NoId).status
             = "error"

\* C7: an operation that fails (a pause or unpause answered with an error
\* status, a webhook whose handler raised) leaves the subscriptions table
\* as it was.
C7_FailureLeavesRowUnchanged ==
    /\ \A req \in UserRequests, n \in NewestIds(routines) :
          LET r == set_unplugged_mode(subscriptions, req[1], req[2], now, n)
          IN  r.code # 200 => r.subs = subscriptions
    /\ \A req \in UserRequests :
          LET r == unpause_subscription(subscriptions, req[1], req[2], now)
          IN  r.code # 200 => r.subs = subscriptions
    /\ \A ev \in Events :
        \A rd \in ReadingsFor(ev, now), n \in NewestFor(ev) :
          LET r == handle_stripe_webhook(subscriptions, "ok", ev,
                                         rd[1], rd[2], n)
          IN  r.status = "error" => r.subs = subscriptions

----------------------------------------------------------------------------
(* The autocreate quota counter (app/utils/rate_limits.py).                *)
(* The quota clock counts slots; SlotsPerHour slots make an hour.          *)

HoursPerDay == 24
SlotsPerDay == HoursPerDay * SlotsPerHour

\* None in AUTOCREATE_RATE_LIMITS: no limit
Unlimited == 0 - 1

\* (daily_limit, hourly_limit) by tier; .get(tier, (0, 0)) for the rest
AUTOCREATE_RATE_LIMITS(tier) ==
    CASE tier = "free" -> <<0, 0>>
      [] tier = "basic" -> <<0, 0>>
      [] tier = "thegoods" -> <<25, 10>>
      [] tier = "moregoods" -> <<50, 20>>
      [] tier = "themost" -> <<100, 40>>
      [] tier = "complimentary" -> <<Unlimited, 40>>
      [] OTHER -> <<0, 0>>

get_tier_rate_limits(tier, is_complimentary) ==
    IF is_complimentary THEN AUTOCREATE_RATE_LIMITS("complimentary")
                        ELSE AUTOCREATE_RATE_LIMITS(tier)

\* midnight UTC of the day after t
NextMidnight(t) == ((t \div SlotsPerDay) + 1) * SlotsPerDay

\* (t + 1 hour) with minute, second and microsecond set to 0
NextHour(t) == ((t + SlotsPerHour) \div SlotsPerHour) * SlotsPerHour

\* `reset_at is None or now >= reset_at`
Expired(reset_at, t) == reset_at = NoTime \/ t >= reset_at

\* the locals of a call: the columns it read and its reading of the clock
NoLocals ==
    [ calls_today |-> 0, calls_this_hour |-> 0,
      daily_reset_at |-> NoTime, hourly_reset_at |-> NoTime, now |-> 0 ]

\* the SELECT of check_autocreate_rate_limit and the clock read after it
CheckRead(q, t) ==
    [ calls_today |-> q.autocreate_calls_today,
      calls_this_hour |-> q.autocreate_calls_this_hour,
      daily_reset_at |-> q.autocreate_daily_reset_at,
      hourly_reset_at |-> q.autocreate_hourly_reset_at,
      now |-> t ]

\* "Check and reset daily counter if needed": the locals and the row after
DailyReset(q, l) ==
    IF Expired(l.daily_reset_at, l.now)
    THEN [ q |-> [q EXCEPT !.autocreate_calls_today = 0,
                           !.autocreate_daily_reset_at = NextMidnight(l.now)],
           l |-> [l EXCEPT !.calls_today = 0,
                           !.daily_reset_at = NextMidnight(l.now)] ]
    ELSE [ q |-> q, l |-> l ]

\* HourlyReset with the hour of `now` itself as the next boundary (the
\* "+ timedelta(hours=1)" forgotten)
HourlyReset_this_hour(q, l) ==
    IF Expired(l.hourly_reset_at, l.now)
    THEN [ q |-> [q EXCEPT !.autocreate_calls_this_hour = 0,
                           !.autocreate_hourly_reset_at =
                               NextHour(l.now) - SlotsPerHour],
           l |-> [l EXCEPT !.calls_this_hour = 0,
                           !.hourly_reset_at = NextHour(l.now) - SlotsPerHour] ]
    ELSE [ q |-> q, l |-> l ]

\* "Check and reset hourly counter if needed"
HourlyReset(q, l) ==
    IF Expired(l.hourly_reset_at, l.now)
    THEN [ q |-> [q EXCEPT !.autocreate_calls_this_hour = 0,
                           !.autocreate_hourly_reset_at = NextHour(l.now)],
           l |-> [l EXCEPT !.calls_this_hour = 0,
                           !.hourly_reset_at = NextHour(l.now)] ]
    ELSE [ q |-> q, l |-> l ]

CheckResult(allowed, reason, remaining_daily, remaining_hourly) ==
    [ allowed |-> allowed, reason |-> reason,
      remaining_daily |-> remaining_daily,
      remaining_hourly |-> remaining_hourly ]

\* Decide with `>` for `>=` in the hourly comparison
Decide_off_by_one(l, limits) ==
    LET daily_limit == limits[1]
        hourly_limit == limits[2]
        remaining_daily ==
            IF daily_limit # Unlimited THEN daily_limit - l.calls_today
                                       ELSE 0 - 1
        remaining_hourly ==
            IF hourly_limit # Unlimited THEN hourly_limit - l.calls_this_hour
                                        ELSE 0 - 1
    IN  IF daily_limit # Unlimited /\ l.calls_today >= daily_limit
        THEN CheckResult(FALSE, "daily limit", remaining_daily, remaining_hourly)
        ELSE IF hourly_limit # Unlimited /\ l.calls_this_hour > hourly_limit
        THEN CheckResult(FALSE, "hourly limit", remaining_daily, remaining_hourly)
        ELSE CheckResult(TRUE, "OK", remaining_daily, remaining_hourly)

\* the limit comparison on the locals: daily first, then hourly
Decide(l, limits) ==
    LET daily_limit == limits[1]
        hourly_limit == limits[2]
        remaining_daily ==
            IF daily_limit # Unlimited THEN daily_limit - l.calls_today
                                       ELSE 0 - 1
        remaining_hourly ==
            IF hourly_limit # Unlimited THEN hourly_limit - l.calls_this_hour
                                        ELSE 0 - 1
    IN  IF daily_limit # Unlimited /\ l.calls_today >= daily_limit
        THEN CheckResult(FALSE, "daily limit", remaining_daily, remaining_hourly)
        ELSE IF hourly_limit # Unlimited /\ l.calls_this_hour >= hourly_limit
        THEN CheckResult(FALSE, "hourly limit", remaining_daily, remaining_hourly)
        ELSE CheckResult(TRUE, "OK", remaining_daily, remaining_hourly)

FailedOpen == CheckResult(TRUE, "OK (rate limit check failed)", 0 - 1, 0 - 1)

\* the statements of a check at which the database may raise
CheckFaults == {"none", "select", "daily update", "hourly update"}

\* one call of check_autocreate_rate_limit running alone at time t:
\* the row it leaves and the result it returns
check_autocreate_rate_limit(q, t, is_using_own_key, fault) ==
    LET limits == get_tier_rate_limits(q.tier, q.is_complimentary) IN
    IF is_using_own_key
    THEN [q |-> q, result |-> CheckResult(TRUE, "OK", 0 - 1, 0 - 1)]
    ELSE IF limits = <<0, 0>>
    THEN [q |-> q, result |-> CheckResult(FALSE, "no access", 0, 0)]
    ELSE IF fault = "select"
    THEN [q |-> q, result |-> FailedOpen]
    ELSE IF q.status # "active"
    THEN [q |-> q, result |-> CheckResult(FALSE, "no active subscription", 0, 0)]
    ELSE LET read == CheckRead(q, t)
             daily == DailyReset(q, read)
             hourly == HourlyReset(daily.q, daily.l)
         IN  IF fault = "daily update"
             THEN [q |-> q, result |-> FailedOpen]
             ELSE IF fault = "hourly update"
             THEN [q |-> daily.q, result |-> FailedOpen]
             ELSE [q |-> hourly.q, result |-> Decide(hourly.l, limits)]

\* the SELECT of increment_autocreate_usage and its reading of the clock
IncrementRead(q, t) ==
    [ NoLocals EXCEPT !.daily_reset_at = q.autocreate_daily_reset_at,
                      !.hourly_reset_at = q.autocreate_hourly_reset_at,
                      !.now = t ]

\* the UPDATE of increment_autocreate_usage: both counters plus one in the
\* row as it is now, a reset time set where the SELECT had found none
IncrementWrite(q, l) ==
    [ q EXCEPT
        !.autocreate_calls_today = @ + 1,
        !.autocreate_calls_this_hour = @ + 1,
        !.autocreate_daily_reset_at =
            IF l.daily_reset_at = NoTime THEN NextMidnight(l.now) ELSE @,
        !.autocreate_hourly_reset_at =
            IF l.hourly_reset_at = NoTime THEN NextHour(l.now) ELSE @ ]

----------------------------------------------------------------------------
(* The quota state machine: NCallers callers of one tenant, each running   *)
(* check, then the metered operation, then increment, statement by         *)
(* statement.                                                              *)

Callers == 1..NCallers

\* the quota clock starts in the last slot of the second day of the model
\* and runs for ClockSpan slots
QStart == 2 * SlotsPerDay - 1

\* the midnight and the hour boundary before QStart
LastMidnight == NextMidnight(QStart) - SlotsPerDay
LastHour == NextHour(QStart) - SlotsPerHour

QuotaRow(tier, is_complimentary, status, today, hour, daily_at, hourly_at) ==
    [ tier |-> tier, is_complimentary |-> is_complimentary,
      status |-> status,
      autocreate_calls_today |-> today,
      autocreate_calls_this_hour |-> hour,
      autocreate_daily_reset_at |-> daily_at,
      autocreate_hourly_reset_at |-> hourly_at ]

\* rows the tenant may hold when the model starts: a new row, a row in use
\* in the current windows, a row last used in windows that have passed
QuotaRows ==
    { QuotaRow("thegoods", FALSE, st, 0, 0, NoTime, NoTime) :
        st \in {"active", "trialing"} }
    \cup
    { QuotaRow("thegoods", FALSE, st, 23, 9,
               NextMidnight(QStart), NextHour(QStart)) :
        st \in {"active", "trialing"} }
    \cup
    { QuotaRow("thegoods", FALSE, st, 24, 10,
               LastMidnight, LastHour - SlotsPerDay) :
        st \in {"active", "trialing"} }
    \cup
    { QuotaRow("basic", FALSE, "active", 0, 0, NoTime, NoTime),
      QuotaRow("basic", FALSE, "active", 0, 0,
               LastMidnight, LastHour - SlotsPerDay),
      QuotaRow("free", TRUE, "active", 60, 39,
               NextMidnight(QStart), NextHour(QStart)) }

BillingParked ==
    /\ subscriptions = [u \in Users |-> NewSubscription(u)]
    /\ routines = {}
    /\ now = 0

InitQuota ==
    /\ quota \in QuotaRows
    /\ qclock = QStart
    /\ callers = [c \in Callers |-> [pc |-> "idle", l |-> NoLocals]]
    /\ made = 0
    /\ BillingParked
    /\ AccountsParked

Limits == get_tier_rate_limits(quota.tier, quota.is_complimentary)

\* whether the statement a step executes raises a database error
FaultsNow == BOOLEAN

\* check_autocreate_rate_limit up to and including its SELECT
CheckStart(c) ==
    /\ callers[c].pc = "idle"
    /\ \E is_using_own_key \in BOOLEAN, fault \in FaultsNow :
         IF is_using_own_key \/ Limits = <<0, 0>>
         THEN UNCHANGED callers
         ELSE IF fault
         THEN callers' = [callers EXCEPT ![c].pc = "allowed"]
         ELSE IF quota.status # "active"
         THEN UNCHANGED callers
         ELSE callers' = [callers EXCEPT
                             ![c].pc = "daily",
                             ![c].l = CheckRead(quota, qclock)]
    /\ UNCHANGED <<quota, qclock, made>>
    /\ UNCHANGED <<billingVars, accountVars, requestVars>>

\* the daily reset of a check, with its UPDATE and commit
CheckDaily(c) ==
    /\ callers[c].pc = "daily"
    /\ \E fault \in FaultsNow :
         IF fault
         THEN /\ callers' = [callers EXCEPT ![c].pc = "allowed",
                                            ![c].l = NoLocals]
              /\ UNCHANGED quota
         ELSE LET r == DailyReset(quota, callers[c].l) IN
              /\ quota' = r.q
              /\ callers' = [callers EXCEPT ![c].pc = "hourly", ![c].l = r.l]
    /\ UNCHANGED <<qclock, made>>
    /\ UNCHANGED <<billingVars, accountVars, requestVars>>

\* the hourly reset of a check, with its UPDATE and commit, and the limit
\* comparison that follows it
CheckHourly(c) ==
    /\ callers[c].pc = "hourly"
    /\ \E fault \in FaultsNow :
         IF fault
         THEN /\ callers' = [callers EXCEPT ![c].pc = "allowed",
                                            ![c].l = NoLocals]
              /\ UNCHANGED quota
         ELSE LET r == HourlyReset(quota, callers[c].l) IN
              /\ quota' = r.q
              /\ callers' = [callers EXCEPT
                    ![c].pc = IF Decide(r.l, Limits).allowed
                              THEN "allowed" ELSE "idle",
                    ![c].l = NoLocals]
    /\ UNCHANGED <<qclock, made>>
    /\ UNCHANGED <<billingVars, accountVars, requestVars>>

\* the metered operation of an allowed caller fails: no increment
OperationFails(c) ==
    /\ callers[c].pc = "allowed"
    /\ callers' = [callers EXCEPT ![c].pc = "idle"]
    /\ UNCHANGED <<quota, qclock, made>>
    /\ UNCHANGED <<billingVars, accountVars, requestVars>>

\* the metered operation succeeded: increment_autocreate_usage up to and
\* including its SELECT
IncrementSelect(c) ==
    /\ callers[c].pc = "allowed"
    /\ made < MaxOps
    /\ callers' = [callers EXCEPT ![c].pc = "increment",
                                  ![c].l = IncrementRead(quota, qclock)]
    /\ UNCHANGED <<quota, qclock, made>>
    /\ UNCHANGED <<billingVars, accountVars, requestVars>>

\* the UPDATE and commit of increment_autocreate_usage
IncrementUpdate(c) ==
    /\ callers[c].pc = "increment"
    /\ quota' = IncrementWrite(quota, callers[c].l)
    /\ callers' = [callers EXCEPT ![c].pc = "idle", ![c].l = NoLocals]
    /\ made' = made + 1
    /\ UNCHANGED qclock
    /\ UNCHANGED <<billingVars, accountVars, requestVars>>

\* time passes
QuotaTick ==
    /\ qclock < QStart + ClockSpan
    /\ qclock' = qclock + 1
    /\ UNCHANGED <<quota, callers, made>>
    /\ UNCHANGED <<billingVars, accountVars, requestVars>>

NextQuota ==
    \/ \E c \in Callers :
         \/ CheckStart(c)
         \/ CheckDaily(c)
         \/ CheckHourly(c)
         \/ OperationFails(c)
         \/ IncrementSelect(c)
         \/ IncrementUpdate(c)
    \/ QuotaTick

SpecQuota == InitQuota /\ [][NextQuota]_vars

----------------------------------------------------------------------------
(* One caller at a time: each call runs from its first statement to its    *)
(* return before anything else happens.                                    *)

\* a whole call of check_autocreate_rate_limit
SeqCheck ==
    /\ callers[1].pc = "idle"
    /\ \E is_using_own_key \in BOOLEAN, fault \in CheckFaults :
         LET r == check_autocreate_rate_limit(quota, qclock,
                                              is_using_own_key, fault)
         IN  /\ quota' = r.q
             /\ callers' = [callers EXCEPT ![1].pc =
                    IF r.result.allowed /\ ~is_using_own_key
                    THEN "allowed" ELSE "idle"]
    /\ UNCHANGED <<qclock, made>>
    /\ UNCHANGED <<billingVars, accountVars, requestVars>>

\* the metered operation succeeded: a whole call of
\* increment_autocreate_usage
SeqIncrement ==
    /\ callers[1].pc = "allowed"
    /\ made < MaxOps
    /\ quota' = IncrementWrite(quota, IncrementRead(quota, qclock))
    /\ callers' = [callers EXCEPT ![1].pc = "idle"]
    /\ made' = made + 1
    /\ UNCHANGED qclock
    /\ UNCHANGED <<billingVars, accountVars, requestVars>>

NextQuotaSeq == SeqCheck \/ OperationFails(1) \/ SeqIncrement \/ QuotaTick

SpecQuotaSeq == InitQuota /\ [][NextQuotaSeq]_vars

----------------------------------------------------------------------------
(* Properties of the quota counter *)

\* the counters a check compares once it has healed the windows at time t
HealedToday(q, t) ==
    IF Expired(q.autocreate_daily_reset_at, t)
    THEN 0 ELSE q.autocreate_calls_today

HealedThisHour(q, t) ==
    IF Expired(q.autocreate_hourly_reset_at, t)
    THEN 0 ELSE q.autocreate_calls_this_hour

\* the stored reset time of a window has passed
DailyPassed == quota.autocreate_daily_reset_at # NoTime
                   /\ qclock >= quota.autocreate_daily_reset_at
HourlyPassed == quota.autocreate_hourly_reset_at # NoTime
                    /\ qclock >= quota.autocreate_hourly_reset_at

\* what self-heal asks of a check that finds a window passed: the counter
\* at zero, the reset time after now, the result computed from zero
SelfHealed(r) ==
    /\ DailyPassed =>
         /\ r.q.autocreate_calls_today = 0
         /\ r.q.autocreate_daily_reset_at > qclock
         /\ r.q.autocreate_daily_reset_at = NextMidnight(qclock)
         /\ Limits[1] # Unlimited => r.result.remaining_daily = Limits[1]
    /\ HourlyPassed =>
         /\ r.q.autocreate_calls_this_hour = 0
         /\ r.q.autocreate_hourly_reset_at > qclock
         /\ r.q.autocreate_hourly_reset_at = NextHour(qclock)
         /\ Limits[2] # Unlimited => r.result.remaining_hourly = Limits[2]

BelowLimits(q, t) ==
    LET limits == get_tier_rate_limits(q.tier, q.is_complimentary) IN
    /\ limits[1] # Unlimited => HealedToday(q, t) < limits[1]
    /\ limits[2] # Unlimited => HealedThisHour(q, t) < limits[2]

\* the tenant is at the hourly limit with daily usage below the daily limit
AtHourlyLimitOnly(q, t) ==
    LET limits == get_tier_rate_limits(q.tier, q.is_complimentary) IN
    /\ limits[2] # Unlimited
    /\ HealedThisHour(q, t) >= limits[2]
    /\ limits[1] # Unlimited => HealedToday(q, t) < limits[1]

C10_QuotaAtomic ==
    [][ /\ quota'.autocreate_calls_today < quota.autocreate_calls_today
            => Expired(quota.autocreate_daily_reset_at, qclock)
        /\ quota'.autocreate_calls_this_hour < quota.autocreate_calls_this_hour
            => Expired(quota.autocreate_hourly_reset_at, qclock)
        /\ Limits[1] # Unlimited
            => quota'.autocreate_calls_today <= Limits[1] + NCallers
        /\ Limits[2] # Unlimited
            => quota'.autocreate_calls_this_hour <= Limits[2] + NCallers
      ]_vars

----------------------------------------------------------------------------
(* Properties of the grace-period controller (pause / unpause) *)

\* a pause or unpause succeeded within the billing period the row stores,
\* and that period has not ended: last_pause_action is written only by a
\* pause or unpause answered with 200
SucceededThisPeriod(row) ==
    /\ row.current_period_start # NoTime
    /\ row.last_pause_action # NoTime
    /\ row.current_period_start <= row.last_pause_action
    /\ now < row.current_period_end

\* C11: once a pause or unpause of the tenant has succeeded within the
\* current billing period, every further pause and every further unpause
\* made within that period is answered with 429 (RateLimited).
C11_OncePerPeriod ==
    \A u \in Users :
        SucceededThisPeriod(subscriptions[u]) =>
            \A stripe \in StripeOutcomes, n \in NewestIds(routines) :
                /\ set_unplugged_mode(subscriptions, u, stripe, now, n).code
                     = 429
                /\ unpause_subscription(subscriptions, u, stripe, now).code
                     = 429

\* C12: a pause or unpause answered with 429 leaves the subscriptions
\* table as it was and sends nothing to the billing provider.
C12_RateLimitedChangesNothing ==
    /\ \A req \in UserRequests, n \in NewestIds(routines) :
          LET r == set_unplugged_mode(subscriptions, req[1], req[2], now, n)
          IN  r.code = 429 => ( r.subs = subscriptions /\ r.call = NoCall )
    /\ \A req \in UserRequests :
          LET r == unpause_subscription(subscriptions, req[1], req[2], now)
          IN  r.code = 429 => ( r.subs = subscriptions /\ r.call = NoCall )

\* C12 witness: the tenant holds a Stripe subscription, is in unplugged
\* mode and has paused within the period, at a later time than the
\* recorded one: pause and unpause are both answered with 429
C12_Witness ==
    /\ subscriptions[1].stripe_subscription_id # None
    /\ subscriptions[1].unplugged_mode
    /\ subscriptions[1].last_pause_action < now
    /\ set_unplugged_mode(subscriptions, 1, "ok", now, NoId).code = 429
    /\ unpause_subscription(subscriptions, 1, "ok", now).code = 429

\* C13: a pause that is the first of the billing period succeeds, and
\* afterwards unplugged_mode is set and last_active_routine_id is the
\* recorded routine, or the newest routine when none was recorded.
C13_FirstPauseUnplugs ==
    \A u \in Users, n \in NewestIds(routines) :
        ~PausedThisPeriod(subscriptions[u]) =>
            LET r == set_unplugged_mode(subscriptions, u, "ok", now, n)
                old == subscriptions[u].last_active_routine_id
            IN  /\ r.code = 200
                /\ r.subs[u].unplugged_mode
                /\ r.subs[u].last_active_routine_id
                     = IF old # NoId THEN old ELSE n

----------------------------------------------------------------------------
(* Properties of the lifecycle events *)

\* the event refers to the subscription the tenant's row stores
Matches(u, sid) ==
    sid # None /\ subscriptions[u].stripe_subscription_id = sid

\* C14: after subscription.updated for the stored subscription with status
\* active or trialing and no cancellation signalled, the tier is the tier
\* of the event's price in SUBSCRIPTION_TIERS (free when the price is in no
\* tier, and the handler does not raise), unplugged_mode is off and mrr is
\* the event's price per month.
C14_UpdatedSetsTierFromPrice ==
    \A u \in Users, ev \in UpdatedEvents :
        ( /\ Matches(u, ev.id)
          /\ ev.status \in {"active", "trialing"}
          /\ ~ev.cancel_at_period_end
          /\ ev.cancel_at = NoTime )
        =>
        LET r == handle_stripe_webhook(subscriptions, "ok", ev,
                                       now, now, NoId)
        IN  /\ r.status = "success"
            /\ r.subs[u].tier = PriceToTier(ev.price.id)
            /\ ~r.subs[u].unplugged_mode
            /\ r.subs[u].mrr = MonthlyValue(ev.price)

\* C15: after subscription.updated for the stored subscription with status
\* active or trialing and a cancellation signalled (cancel_at_period_end
\* or cancel_at), the row is in the grace period: unplugged_mode set,
\* lapse_date = now, data_deletion_date = now + 90 days, and
\* last_active_routine_id as it was.
C15_UpdatedCancellationBeginsGrace ==
    \A u \in Users, ev \in UpdatedEvents :
        ( /\ Matches(u, ev.id)
          /\ ev.status \in {"active", "trialing"}
          /\ ( ev.cancel_at_period_end \/ ev.cancel_at # NoTime )
          /\ ev.price.unit_amount # NoAmount )
        =>
        LET after == Delivered(subscriptions, ev, <<now, now>>, NoId)
        IN  /\ after[u].unplugged_mode
            /\ after[u].lapse_date = now
            /\ after[u].data_deletion_date = now + timedelta_days(GraceDays)
            /\ after[u].last_active_routine_id
                 = subscriptions[u].last_active_routine_id

\* C16: after subscription.deleted for the stored subscription with reason
\* cancellation_requested, the row is in the grace period (unplugged_mode
\* set, lapse_date and data_deletion_date set), tier is free, mrr is 0 and
\* the references to the ended subscription (subscription id, item id,
\* price id) are cleared.
C16_UserCancellationEntersGrace ==
    \A u \in Users, ev \in DeletedEvents :
        ( Matches(u, ev.id) /\ ev.reason = "cancellation_requested" )
        =>
        \A rd \in Readings(now), n \in NewestIds(routines) :
            LET after == Delivered(subscriptions, ev, rd, n)
            IN  /\ after[u].unplugged_mode
                /\ after[u].lapse_date # NoTime
                /\ after[u].data_deletion_date # NoTime
                /\ after[u].tier = "free"
                /\ after[u].mrr = 0
                /\ after[u].stripe_subscription_id = None
                /\ after[u].stripe_subscription_item_id = None
                /\ after[u].stripe_price_id = None

\* C17: after subscription.deleted for the stored subscription with an
\* automatic reason (payment_failed, or none given), tier is free and the
\* row is not in a grace period: unplugged_mode is off.
C17_AutomaticCancellationNoGrace ==
    \A u \in Users, ev \in DeletedEvents :
        ( Matches(u, ev.id) /\ ev.reason # "cancellation_requested" )
        =>
        \A rd \in Readings(now), n \in NewestIds(routines) :
            LET after == Delivered(subscriptions, ev, rd, n)
            IN  /\ after[u].tier = "free"
                /\ ~after[u].unplugged_mode

\* status active with every grace-period field cleared
Reactivated(row) ==
    /\ row.status = "active"
    /\ ~row.unplugged_mode
    /\ row.lapse_date = NoTime
    /\ row.data_deletion_date = NoTime

\* C18: after invoice.payment_succeeded for the stored subscription of a
\* row whose status is not active, the status is active and the
\* grace-period fields are cleared; and after invoice.payment_succeeded
\* for a subscription of a tenant in unplugged mode the same holds,
\* whatever last_pause_action is.
C18_ReactivationAlwaysWins ==
    \A u \in Users, invoice \in PaymentSucceededEvents :
        LET after == Delivered(subscriptions, invoice, <<now, now>>, NoId)
        IN  /\ ( Matches(u, invoice.subscription)
                 /\ subscriptions[u].status # "active" )
               => Reactivated(after[u])
            /\ ( invoice.subscription # None
                 /\ subscriptions[u].unplugged_mode )
               => Reactivated(after[u])

\* C19: invoice.payment_failed for the stored subscription sets status to
\* past_due and leaves every other field of the row, tier included, as it
\* was.
C19_PaymentFailedOnlySetsStatus ==
    \A u \in Users, invoice \in PaymentFailedEvents :
        Matches(u, invoice.subscription) =>
            Delivered(subscriptions, invoice, <<now, now>>, NoId)
                = [subscriptions EXCEPT ![u].status = "past_due"]

\* C19 witness: a paid, active subscription with a monthly value, and an
\* invoice.payment_failed for it
C19_Witness ==
    /\ subscriptions[1].status = "active"
    /\ subscriptions[1].tier # "free"
    /\ subscriptions[1].mrr > 0
    /\ \E invoice \in PaymentFailedEvents :
          /\ Matches(1, invoice.subscription)
          /\ Delivered(subscriptions, invoice, <<now, now>>, NoId)[1].status
               = "past_due"

\* C20: when subscription.created arrives for a tenant whose row stores a
\* different subscription with status active, the handler tells Stripe to
\* cancel the stored subscription and the event is applied: the row
\* afterwards carries the event's subscription id, item id, price id,
\* tier, status and period bounds.
C20_DoubleSubscribeSafetyNet ==
    \A ev \in CreatedEvents :
        ( /\ ev.user_id \in Users
          /\ subscriptions[ev.user_id].stripe_subscription_id # None
          /\ subscriptions[ev.user_id].stripe_subscription_id # ev.id
          /\ subscriptions[ev.user_id].status = "active" )
        =>
        LET u == ev.user_id
            r == handle_stripe_webhook(subscriptions, "ok", ev,
                                       now, now, NoId)
        IN  /\ r.call = CancelCall(subscriptions[u].stripe_subscription_id)
            /\ r.subs[u].stripe_subscription_id = ev.id
            /\ r.subs[u].stripe_subscription_item_id = ItemOf(ev.id)
            /\ r.subs[u].stripe_price_id = ev.price.id
            /\ r.subs[u].tier = ev.tier
            /\ r.subs[u].status = ev.status
            /\ r.subs[u].current_period_start = ev.current_period_start
            /\ r.subs[u].current_period_end
                 = ev.current_period_start + timedelta_days(PeriodDays)

\* the row's grace-period fields are cleared
GraceCleared(row) ==
    /\ ~row.unplugged_mode
    /\ row.lapse_date = NoTime
    /\ row.data_deletion_date = NoTime

\* subscription.created that the handler applies: the tenant's row exists
\* and the price carries a unit_amount
Applied(ev) ==
    ev.user_id \in Users /\ ev.price.unit_amount # NoAmount

\* C21: after subscription.created is applied to a tenant's row,
\* unplugged_mode is off and lapse_date and data_deletion_date are NULL,
\* whatever status the event carries.
C21_CreatedClearsGrace ==
    \A ev \in CreatedEvents :
        Applied(ev) =>
            GraceCleared(Delivered(subscriptions, ev, <<now, now>>,
                                   NoId)[ev.user_id])

\* C21: after subscription.created is applied to a tenant's row, the
\* grace-period fields are cleared when the event's status is active or
\* trialing, and are as they were for any other status.
C21_CreatedClearsGraceWhenHealthy ==
    \A ev \in CreatedEvents :
        Applied(ev) =>
            LET u == ev.user_id
                after == Delivered(subscriptions, ev, <<now, now>>, NoId)
            IN  IF ev.status \in {"active", "trialing"}
                THEN GraceCleared(after[u])
                ELSE /\ after[u].unplugged_mode
                        = subscriptions[u].unplugged_mode
                     /\ after[u].lapse_date = subscriptions[u].lapse_date
                     /\ after[u].data_deletion_date
                        = subscriptions[u].data_deletion_date

\* C21 witness: the tenant is in unplugged mode with both dates set, and
\* an active subscription.created clears the three fields while an
\* incomplete one is applied and leaves them
C21_Witness ==
    /\ subscriptions[1].unplugged_mode
    /\ subscriptions[1].lapse_date # NoTime
    /\ subscriptions[1].data_deletion_date # NoTime
    /\ \E ev \in CreatedEvents :
          /\ Applied(ev) /\ ev.status = "active"
          /\ GraceCleared(Delivered(subscriptions, ev, <<now, now>>, NoId)[1])
    /\ \E ev \in CreatedEvents :
          LET after == Delivered(subscriptions, ev, <<now, now>>, NoId) IN
          /\ Applied(ev) /\ ev.status = "incomplete"
          /\ after[1].status = "incomplete"
          /\ after[1].unplugged_mode

\* C22: in every state in which the row stores a price id, the stored
\* tier is the tier of that price in SUBSCRIPTION_TIERS, free when the
\* price is in no tier.
C22_TierDerivedFromPrice ==
    \A u \in Users :
        subscriptions[u].stripe_price_id # None =>
            subscriptions[u].tier
                = PriceToTier(subscriptions[u].stripe_price_id)

\* C28: no user-facing operation (checkout, change of tier, pause,
\* unpause, resume, portal) changes the stored stripe_subscription_id, and
\* a change of tier leaves the stored tier and price id as they were: only
\* the webhook handlers write them.
C28_UserActionsKeepSubscriptionRef ==
    \A u \in Users, req \in UserRequests :
        LET sid == subscriptions[u].stripe_subscription_id IN
        /\ \A n \in NewestIds(routines) :
              set_unplugged_mode(subscriptions, req[1], req[2], now, n)
                  .subs[u].stripe_subscription_id = sid
        /\ unpause_subscription(subscriptions, req[1], req[2], now)
              .subs[u].stripe_subscription_id = sid
        /\ create_portal_session(subscriptions, req[1], req[2])
              .subs[u].stripe_subscription_id = sid
        /\ resume_subscription(subscriptions, req[1], req[2])
              .subs[u].stripe_subscription_id = sid
        /\ \A tier \in PaidTiers \cup {"free", "complimentary"},
              period \in {"monthly", "yearly"} :
              /\ create_checkout_session(subscriptions, req[1], tier,
                                         period, req[2])
                    .subs[u].stripe_subscription_id = sid
              /\ \A stripe \in UpdateOutcomes :
                    LET r == update_existing_subscription(subscriptions,
                                 req[1], tier, period, stripe)
                    IN  /\ r.subs[u].stripe_subscription_id = sid
                        /\ r.subs[u].tier = subscriptions[u].tier
                        /\ r.subs[u].stripe_price_id
                             = subscriptions[u].stripe_price_id

\* C28 witness: the tenant is on basic with an active subscription and
\* asks for thegoods yearly; Stripe accepts the change, and the row still
\* has tier basic and the basic price
C28_Witness ==
    /\ subscriptions[1].stripe_subscription_id # None
    /\ subscriptions[1].tier = "basic"
    /\ subscriptions[1].stripe_price_id = BasicMonthly
    /\ LET r == update_existing_subscription(subscriptions, 1, "thegoods",
                                             "yearly", "ok")
       IN  /\ r.code = 200
           /\ r.call = PriceCall(subscriptions[1].stripe_subscription_id)
           /\ r.subs[1].tier = "basic"

----------------------------------------------------------------------------
(* Part 3: accounts.  Tables ab_user, subscriptions and the tenant-owned   *)
(* tables; delete_user_account of app/utils/account_deletion.py; the cron  *)
(* job cron/process_scheduled_deletions.py.                                *)

NTenants == 1        \* tenants with an account
MaxRuns == 2         \* runs of the cron job in one behaviour
MaxSweepNow == 1     \* the clock of the cron job runs over 0..MaxSweepNow

Tenants == 1..NTenants

\* prorated_refund_amount of a tenant owed a refund, in dollars
RefundAmount == 5

\* the tables delete_user_account and the cron job touch; rows carry the
\* columns the statements read
Tables ==
    { "ab_user", "subscriptions", "items", "routines", "routine_items",
      "chord_charts", "practice_events", "user_preferences" }

\* a row of subscriptions as the cron job reads it
SubscriptionRow(u, customer, scheduled_for, type, refund) ==
    [ user_id |-> u,
      tier |-> "free",
      status |-> "active",
      stripe_customer_id |-> customer,
      deletion_scheduled_for |-> scheduled_for,
      deletion_type |-> type,
      prorated_refund_amount |-> refund ]

\* the records create_demo_data_for_user inserts for user u: one item, one
\* routine, the routine_items row joining them, chord charts of the item
DemoData(u) ==
    [ items |-> { [id |-> u, user_id |-> u] },
      routines |-> { [id |-> u, user_id |-> u] },
      routine_items |-> { [routine_id |-> u, item_id |-> u] },
      chord_charts |-> { [id |-> u, user_id |-> u] } ]

EmptyDb ==
    [ ab_user |-> {},
      subscriptions |-> {},
      items |-> {},
      routines |-> {},
      routine_items |-> {},
      chord_charts |-> {},
      practice_events |-> {},
      user_preferences |-> {} ]

\* rows of table t that belong to user uid; routine_items belong to the
\* owner of their routine
RowsOf(d, t, uid) ==
    CASE t = "ab_user" -> { r \in d.ab_user : r = uid }
      [] t = "routine_items" ->
            { ri \in d.routine_items :
                \E r \in d.routines :
                    r.id = ri.routine_id /\ r.user_id = uid }
      [] OTHER -> { r \in d[t] : r.user_id = uid }

\* ForeignKey('routines.id') and ForeignKey('items.id') of routine_items:
\* a DELETE of a routine or item that a routine_items row still refers to
\* raises IntegrityError
ForeignKeyViolated(d, t, rows) ==
    CASE t = "routines" ->
            \E ri \in d.routine_items, r \in rows : ri.routine_id = r.id
      [] t = "items" ->
            \E ri \in d.routine_items, r \in rows : ri.item_id = r.id
      [] OTHER -> FALSE

\* the DELETE statements of delete_user_account, in the order it runs them
DeleteOrder ==
    << "practice_events", "user_preferences", "chord_charts",
       "routine_items", "routines", "items", "subscriptions", "ab_user" >>

\* database errors delete_user_account may meet: none, or at one statement
DeleteFaults == {"none"} \cup Tables

\* runs the statements of order from position i on; ok is FALSE when a
\* statement raised
RECURSIVE RunDeletes(_, _, _, _, _)
RunDeletes(d, order, i, uid, fault) ==
    IF i > Len(order) THEN [ok |-> TRUE, db |-> d]
    ELSE LET t == order[i]
             rows == RowsOf(d, t, uid)
         IN  IF fault = t \/ ForeignKeyViolated(d, t, rows)
             THEN [ok |-> FALSE, db |-> d]
             ELSE RunDeletes([d EXCEPT ![t] = @ \ rows],
                             order, i + 1, uid, fault)

\* delete_user_account with routines deleted before routine_items
delete_user_account_parent_first(d, uid, fault) ==
    LET order == << "practice_events", "user_preferences", "chord_charts",
                    "routines", "routine_items", "items", "subscriptions",
                    "ab_user" >>
        r == RunDeletes(d, order, 1, uid, fault)
    IN  IF r.ok THEN [ok |-> TRUE, db |-> r.db]
        ELSE [ok |-> FALSE, db |-> d]

\* delete_user_account without the rollback: the statements that ran
\* before the failing one stay applied
delete_user_account_no_rollback(d, uid, fault) ==
    LET r == RunDeletes(d, DeleteOrder, 1, uid, fault)
    IN  IF r.ok THEN [ok |-> TRUE, db |-> r.db]
        ELSE [ok |-> FALSE, db |-> r.db]

\* delete_user_account: all statements in one transaction, commit at the
\* end; on an exception rollback and return False.  The PostHog profile
\* deletion before the statements never raises and changes no table.
delete_user_account(d, uid, fault) ==
    LET r == RunDeletes(d, DeleteOrder, 1, uid, fault)
    IN  IF r.ok THEN [ok |-> TRUE, db |-> r.db]
        ELSE [ok |-> FALSE, db |-> d]

\* the SELECT of the cron job: subscriptions joined with ab_user, due for
\* deletion at time t
DueRows(d, t) ==
    { s \in d.subscriptions :
        /\ s.user_id \in d.ab_user
        /\ s.deletion_scheduled_for # NoTime
        /\ s.deletion_scheduled_for <= t
        /\ s.deletion_type = "scheduled" }

\* the orders in which fetchall may return a set of rows
RECURSIVE Orders(_)
Orders(rows) ==
    IF rows = {} THEN { <<>> }
    ELSE UNION { { <<r>> \o rest : rest \in Orders(rows \ {r}) } : r \in rows }

\* the loop moves to the next fetched row; after the last row the run ends
NextRow(s) ==
    IF Len(s.deletions) > 1
    THEN [s EXCEPT !.deletions = Tail(@), !.pc = "refund", !.refund = "none"]
    ELSE [s EXCEPT !.deletions = <<>>, !.pc = "idle", !.refund = "none",
                   !.runs = @ + 1]

\* outcomes of step 1 for a fetched row: skipped when there is no customer
\* or no positive amount; else the refund is created, or the customer has
\* no charge, or Charge.list / Refund.create raises
RefundOutcomes(row) ==
    IF /\ row.stripe_customer_id # None
       /\ row.prorated_refund_amount # NoAmount
       /\ row.prorated_refund_amount > 0
    THEN {"refunded", "no charge", "error"}
    ELSE {"skipped"}

\* step 1 propagating an exception of the refund to the handler of the loop
AfterRefund_aborts(d, s, o, outcome) ==
    LET u == Head(s.deletions).user_id IN
    IF outcome = "error"
    THEN [db |-> d, sweep |-> NextRow(s), outbox |-> o]
    ELSE [ db |-> d,
           sweep |-> [s EXCEPT !.pc = "delete", !.refund = outcome],
           outbox |-> IF outcome = "refunded"
                      THEN [o EXCEPT !.refunds[u] = @ + 1] ELSE o ]

\* step 1 of the loop body: the refund; its exceptions are caught and
\* logged inside the step
AfterRefund(d, s, o, outcome) ==
    LET u == Head(s.deletions).user_id IN
    [ db |-> d,
      sweep |-> [s EXCEPT !.pc = "delete", !.refund = outcome],
      outbox |-> IF outcome = "refunded"
                 THEN [o EXCEPT !.refunds[u] = @ + 1] ELSE o ]

\* step 2: delete_user_account; False is raised to the handler of the
\* loop, which rolls back and goes on with the next row
AfterDelete(d, s, o, fault) ==
    LET u == Head(s.deletions).user_id
        r == delete_user_account(d, u, fault)
    IN  IF r.ok
        THEN [db |-> r.db, sweep |-> [s EXCEPT !.pc = "email"], outbox |-> o]
        ELSE [db |-> d, sweep |-> NextRow(s), outbox |-> o]

\* step 3: the farewell email; its exceptions are caught and logged
AfterEmail(d, s, o, outcome) ==
    LET u == Head(s.deletions).user_id IN
    [ db |-> d,
      sweep |-> NextRow(s),
      outbox |-> [o EXCEPT !.emails[u] = @ + 1] ]

\* cancel_scheduled_deletion of a tenant: clears deletion_scheduled_for
\* and deletion_type of the tenant's row
cancel_scheduled_deletion(d, uid) ==
    [d EXCEPT !.subscriptions =
        { IF s.user_id = uid
          THEN [s EXCEPT !.deletion_scheduled_for = NoTime,
                         !.deletion_type = None]
          ELSE s : s \in @ }]

\* accounts the job may find, as <<has a Stripe customer, scheduled for,
\* type, refund>>: not scheduled; scheduled and due with a refund owed;
\* scheduled and due without refund; scheduled for later
Schedules ==
    { <<FALSE, NoTime, None, NoAmount>>,
      <<TRUE, 0, "scheduled", RefundAmount>>,
      <<FALSE, 0, "scheduled", 0>>,
      <<TRUE, MaxSweepNow, "scheduled", RefundAmount>> }

\* stripe_customer_id of a tenant who has been through checkout
CustomerOf(u) == <<"cus_A", "cus_B", "cus_C", "cus_D">>[u]

\* records a tenant owns: none (demo data failed), the demo data, or the
\* demo data with practice events and preferences
Holdings == {"none", "demo", "used"}

AccountOf(u, schedule, holding) ==
    LET demo == IF holding = "none"
                THEN [items |-> {}, routines |-> {}, routine_items |-> {},
                      chord_charts |-> {}]
                ELSE DemoData(u)
    IN  [ ab_user |-> {u},
          subscriptions |->
              { SubscriptionRow(u,
                                IF schedule[1] THEN CustomerOf(u) ELSE None,
                                schedule[2], schedule[3], schedule[4]) },
          items |-> demo.items,
          routines |-> demo.routines,
          routine_items |-> demo.routine_items,
          chord_charts |-> demo.chord_charts,
          practice_events |->
              IF holding = "used" THEN { [id |-> u, user_id |-> u] } ELSE {},
          user_preferences |->
              IF holding = "used" THEN { [user_id |-> u] } ELSE {} ]

\* union of two databases, table by table
Merge(a, b) == [ t \in Tables |-> a[t] \cup b[t] ]

RECURSIVE Databases(_)
Databases(n) ==
    IF n = 0 THEN { [t \in Tables |-> {}] }
    ELSE { Merge(rest, AccountOf(n, sch, h)) :
             rest \in Databases(n - 1), sch \in Schedules, h \in Holdings }

OthersParked ==
    /\ subscriptions = [parked |-> TRUE]
    /\ routines = {}
    /\ QuotaParked
    /\ NoRequest

InitSweep ==
    /\ db \in Databases(NTenants)
    /\ sweep = [pc |-> "idle", deletions |-> <<>>, refund |-> "none",
                runs |-> 0]
    /\ outbox = [ refunds |-> [u \in Tenants |-> 0],
                  emails |-> [u \in Tenants |-> 0] ]
    /\ now = 0
    /\ OthersParked

sweepOthers ==
    <<subscriptions, routines, quota, qclock, callers, made, requestVars>>

\* the job starts: one SELECT, fetchall
SweepSelect ==
    /\ sweep.pc = "idle"
    /\ sweep.runs < MaxRuns
    /\ \E fetched \in Orders(DueRows(db, now)) :
          sweep' = IF fetched = <<>>
                   THEN [sweep EXCEPT !.runs = @ + 1]
                   ELSE [sweep EXCEPT !.deletions = fetched, !.pc = "refund"]
    /\ UNCHANGED <<db, outbox, now>>
    /\ UNCHANGED sweepOthers

SweepRefund ==
    /\ sweep.pc = "refund"
    /\ \E outcome \in RefundOutcomes(Head(sweep.deletions)) :
          LET a == AfterRefund(db, sweep, outbox, outcome) IN
          /\ db' = a.db
          /\ sweep' = a.sweep
          /\ outbox' = a.outbox
    /\ UNCHANGED now
    /\ UNCHANGED sweepOthers

SweepDelete ==
    /\ sweep.pc = "delete"
    /\ \E fault \in DeleteFaults :
          LET a == AfterDelete(db, sweep, outbox, fault) IN
          /\ db' = a.db
          /\ sweep' = a.sweep
          /\ outbox' = a.outbox
    /\ UNCHANGED now
    /\ UNCHANGED sweepOthers

SweepEmail ==
    /\ sweep.pc = "email"
    /\ \E outcome \in {"sent", "error"} :
          LET a == AfterEmail(db, sweep, outbox, outcome) IN
          /\ db' = a.db
          /\ sweep' = a.sweep
          /\ outbox' = a.outbox
    /\ UNCHANGED now
    /\ UNCHANGED sweepOthers

\* a tenant with a scheduled deletion cancels it
CancelDeletion ==
    /\ \E u \in Tenants :
          /\ \E s \in db.subscriptions :
                s.user_id = u /\ s.deletion_type = "scheduled"
          /\ db' = cancel_scheduled_deletion(db, u)
    /\ UNCHANGED <<sweep, outbox, now>>
    /\ UNCHANGED sweepOthers

SweepTick ==
    /\ now < MaxSweepNow
    /\ now' = now + 1
    /\ UNCHANGED <<db, sweep, outbox>>
    /\ UNCHANGED sweepOthers

NextSweep ==
    \/ SweepSelect \/ SweepRefund \/ SweepDelete \/ SweepEmail
    \/ CancelDeletion \/ SweepTick

SpecSweep == InitSweep /\ [][NextSweep]_vars

----------------------------------------------------------------------------
(* Properties of the scheduled-deletion job *)

\* C23: over any number of runs of the job, the refund of a tenant is
\* created at Stripe at most once, whether delete_user_account succeeded
\* or failed in the earlier run.
C23_SweepRefundsOnce ==
    \A u \in Tenants : outbox.refunds[u] <= 1

\* the tenant's row is due for deletion at time t
Due(d, u, t) == \E s \in DueRows(d, t) : s.user_id = u

\* C24: the job begins to process a tenant (step 1, the refund, followed
\* by the deletion) only if at that moment the tenant's row has
\* deletion_type = scheduled and deletion_scheduled_for <= now; a tenant
\* who has cleared both before that moment is not processed.
C24_ProcessedOnlyIfStillDue ==
    [][ ( sweep.pc = "refund" /\ sweep'.pc = "delete" )
        => Due(db, Head(sweep.deletions).user_id, now) ]_vars

\* no row of any table belongs to user u
NoRecords(d, u) == \A t \in Tables : RowsOf(d, t, u) = {}

\* C25: whatever the outcome of the refund, an exception included, the
\* job goes on to delete_user_account for the same tenant; when that
\* succeeds no row of the tenant is left and the job goes on to the
\* farewell email, which is attempted.
C25_RefundFailureDoesNotAbort ==
    /\ sweep.pc = "refund" =>
          \A outcome \in RefundOutcomes(Head(sweep.deletions)) :
              LET a == AfterRefund(db, sweep, outbox, outcome) IN
              /\ a.sweep.pc = "delete"
              /\ a.sweep.deletions = sweep.deletions
              /\ a.db = db
    /\ sweep.pc = "delete" =>
          LET u == Head(sweep.deletions).user_id
              a == AfterDelete(db, sweep, outbox, "none")
          IN  /\ NoRecords(a.db, u)
              /\ a.sweep.pc = "email"
              /\ a.sweep.deletions = sweep.deletions
    /\ sweep.pc = "email" =>
          LET u == Head(sweep.deletions).user_id IN
          \A outcome \in {"sent", "error"} :
              AfterEmail(db, sweep, outbox, outcome).outbox.emails[u]
                  = outbox.emails[u] + 1

\* C25 witness: the refund of a tenant raised, the tenant's rows were
\* deleted all the same and the job is about to send the farewell email
C25_Witness ==
    /\ sweep.pc = "email"
    /\ sweep.refund = "error"
    /\ NoRecords(db, Head(sweep.deletions).user_id)

\* position of table t in the order of the DELETE statements
PositionOf(t) == CHOOSE i \in 1..Len(DeleteOrder) : DeleteOrder[i] = t

\* tables whose rows carry the owner's user_id or hang on an owned routine
OwnedTables == Tables \ {"subscriptions", "ab_user"}

\* C26: delete_user_account deletes routine_items before routines, every
\* tenant-owned table before subscriptions, and subscriptions before
\* ab_user; with no database error it succeeds under the foreign keys of
\* the schema, and afterwards no row of the tenant is left while the rows
\* of every other tenant are as they were.
C26_DeletionOrder ==
    /\ PositionOf("routine_items") < PositionOf("routines")
    /\ \A t \in OwnedTables : PositionOf(t) < PositionOf("subscriptions")
    /\ PositionOf("subscriptions") < PositionOf("ab_user")
    /\ \A u \in Tenants :
          LET r == delete_user_account(db, u, "none") IN
          /\ r.ok
          /\ NoRecords(r.db, u)
          /\ \A v \in Tenants \ {u}, t \in Tables :
                RowsOf(r.db, t, v) = RowsOf(db, t, v)

\* C26 witness: a tenant who owns rows in every table, a routine with a
\* routine_items row among them, for whom delete_user_account succeeds
C26_Witness ==
    \E u \in Tenants :
        /\ \A t \in Tables : RowsOf(db, t, u) # {}
        /\ delete_user_account(db, u, "none").ok
        /\ NoRecords(delete_user_account(db, u, "none").db, u)

----------------------------------------------------------------------------
(* Part 4: signup.  Password registration (ImmediateRegisterUserDBView)    *)
(* and OAuth user creation (CustomSecurityManager) of app/security.py,     *)
(* over the tables of Part 3.                                              *)

MaxSignups == 3      \* people who may sign up

Applicants == 1..MaxSignups

\* outcomes of a statement or transaction against the database
DbOutcomes == {"ok", "error"}

\* the INSERT INTO subscriptions of both signup paths, in its try/except:
\* on an exception the error is logged, the session rolled back and the
\* signup goes on
insert_free_subscription(d, uid, insert) ==
    IF insert = "ok"
    THEN [d EXCEPT !.subscriptions =
             @ \cup { SubscriptionRow(uid, None, NoTime, None, NoAmount) }]
    ELSE d

\* create_demo_data_for_user: one transaction, committed at the end; on
\* an exception rollback, nothing is raised
create_demo_data_for_user(d, uid, demo) ==
    IF demo = "ok"
    THEN [d EXCEPT !.items = @ \cup DemoData(uid).items,
                   !.routines = @ \cup DemoData(uid).routines,
                   !.routine_items = @ \cup DemoData(uid).routine_items,
                   !.chord_charts = @ \cup DemoData(uid).chord_charts]
    ELSE d

\* post_register: the free subscription, then the demo data
post_register(d, uid, insert, demo) ==
    create_demo_data_for_user(insert_free_subscription(d, uid, insert),
                              uid, demo)

\* form_post of the registration view: add_user creates the ab_user row
\* (it returns nothing when the username or email is taken or the insert
\* fails), then post_register
form_post(d, uid, add_user, insert, demo) ==
    IF uid \in d.ab_user \/ add_user # "ok" THEN d
    ELSE post_register([d EXCEPT !.ab_user = @ \cup {uid}],
                       uid, insert, demo)

\* auth_user_oauth: an existing user is returned as is; a new one is
\* created with add_user, given a free subscription in a try/except and
\* the demo data
auth_user_oauth(d, uid, add_user, insert, demo) ==
    IF uid \in d.ab_user THEN d
    ELSE IF add_user # "ok" THEN d
    ELSE create_demo_data_for_user(
             insert_free_subscription([d EXCEPT !.ab_user = @ \cup {uid}],
                                      uid, insert),
             uid, demo)

InitSignup ==
    /\ db = EmptyDb
    /\ sweep = [parked |-> TRUE]
    /\ outbox = [parked |-> TRUE]
    /\ now = 0
    /\ OthersParked

RegisterPassword ==
    /\ \E u \in Applicants, add_user, insert, demo \in DbOutcomes :
          db' = form_post(db, u, add_user, insert, demo)
    /\ UNCHANGED <<sweep, outbox, now>>
    /\ UNCHANGED sweepOthers

SignupOAuth ==
    /\ \E u \in Applicants, add_user, insert, demo \in DbOutcomes :
          db' = auth_user_oauth(db, u, add_user, insert, demo)
    /\ UNCHANGED <<sweep, outbox, now>>
    /\ UNCHANGED sweepOthers

\* the account of a user is deleted by the cron job, which finds users
\* through their subscriptions row
AccountDeleted ==
    /\ \E u \in Applicants, fault \in DeleteFaults :
          /\ u \in db.ab_user
          /\ \E s \in db.subscriptions : s.user_id = u
          /\ db' = delete_user_account(db, u, fault).db
    /\ UNCHANGED <<sweep, outbox, now>>
    /\ UNCHANGED sweepOthers

NextSignup == RegisterPassword \/ SignupOAuth \/ AccountDeleted

SpecSignup == InitSignup /\ [][NextSignup]_vars

\* C29: every user in ab_user has exactly one subscriptions row, and in
\* this specification, where nothing but signup writes the row, it has
\* tier free and status active.  Violated: when the INSERT fails the user
\* is kept and has no row.
C29_ExactlyOneSubscription ==
    \A u \in db.ab_user :
        /\ Cardinality({ s \in db.subscriptions : s.user_id = u }) = 1
        /\ \A s \in db.subscriptions :
              s.user_id = u => s.tier = "free" /\ s.status = "active"

----------------------------------------------------------------------------
(* Part 5: the tenant isolation filter of app/middleware/rls.py, over the  *)
(* tables of Part 3.                                                       *)

NOwners == 2         \* users whose records are in the tables

Owners == 1..NOwners

\* the model classes of app/models.py over the tables of Part 3
Models ==
    { "Item", "Routine", "RoutineItem", "ChordChart", "Subscription",
      "UserPreferences", "PracticeEvent" }

\* __tablename__
TableOf(model) ==
    CASE model = "Item" -> "items"
      [] model = "Routine" -> "routines"
      [] model = "RoutineItem" -> "routine_items"
      [] model = "ChordChart" -> "chord_charts"
      [] model = "Subscription" -> "subscriptions"
      [] model = "UserPreferences" -> "user_preferences"
      [] model = "PracticeEvent" -> "practice_events"

\* hasattr(model, 'user_id'): RoutineItem has routine_id and item_id only
HasUserId(model) == model # "RoutineItem"

\* g after set_current_user_context: the id of the authenticated user, or
\* None, which is NoUser here as in the requests of Part 1
set_current_user_context(current_user) ==
    [ attr \in {"current_user_id"} |-> current_user ]

\* getattr(g, 'current_user_id', None)
get_current_user_id(gg) ==
    IF "current_user_id" \in DOMAIN gg THEN gg["current_user_id"] ELSE NoUser

\* truth value of a user id in `if user_id`: None and 0 are false
Truthy(user_id) == user_id # NoUser

\* filter_by_user: query is the set of rows the unfiltered query returns
filter_by_user(query, model, gg) ==
    LET user_id == get_current_user_id(gg) IN
    IF Truthy(user_id) /\ HasUserId(model)
    THEN { r \in query : r.user_id = user_id }
    ELSE query

RECURSIVE OwnersDatabases(_)
OwnersDatabases(n) ==
    IF n = 0 THEN { [t \in Tables |-> {}] }
    ELSE { Merge(rest, AccountOf(n, <<FALSE, NoTime, None, NoAmount>>, h)) :
             rest \in OwnersDatabases(n - 1), h \in Holdings }

InitFilter ==
    /\ db \in OwnersDatabases(NOwners)
    /\ sweep = [parked |-> TRUE]
    /\ outbox = [parked |-> TRUE]
    /\ now = 0
    /\ OthersParked

filterOthers ==
    <<subscriptions, routines, now, quotaVars, db, sweep, outbox, txn,
      resetVars>>

\* a request arrives: before_request stores the identity of current_user
BeforeRequest ==
    /\ \E current_user \in Owners \cup {NoUser} :
          g' = set_current_user_context(current_user)
    /\ UNCHANGED result
    /\ UNCHANGED filterOthers

\* a repository method runs query.all() on a filtered query
Query ==
    /\ \E model \in Models :
          result' = [ model |-> model,
                      user_id |-> get_current_user_id(g),
                      rows |-> filter_by_user(db[TableOf(model)], model, g) ]
    /\ UNCHANGED g
    /\ UNCHANGED filterOthers

\* the dictionaries a create request may carry: without user_id, or with
\* the user_id of some user
Payloads ==
    { [title |-> "song"] }
        \cup { [title |-> "song", user_id |-> u] : u \in Owners }

\* set_user_id_on_create: model_data['user_id'] = user_id when the context
\* has an identity; otherwise model_data is returned as it came
set_user_id_on_create(model_data, gg) ==
    LET user_id == get_current_user_id(gg) IN
    IF Truthy(user_id)
    THEN [ k \in DOMAIN model_data \cup {"user_id"} |->
             IF k = "user_id" THEN user_id ELSE model_data[k] ]
    ELSE model_data

\* a service create method stamps the payload
Create ==
    /\ \E model_data \in Payloads :
          result' = [ payload |-> model_data,
                      user_id |-> get_current_user_id(g),
                      created |-> set_user_id_on_create(model_data, g) ]
    /\ UNCHANGED g
    /\ UNCHANGED filterOthers

\* records from before the migration: Item.user_id is nullable
LegacyRecords == { [id |-> 9, user_id |-> NoUser] }

\* the records a service may hold: any row of a table, or a legacy record
Records == UNION { db[TableOf(model)] : model \in Models } \cup LegacyRecords

\* verify_user_ownership with allow_none always on
verify_user_ownership_allows_none(record, allow_none, gg) ==
    LET user_id == get_current_user_id(gg) IN
    IF ~Truthy(user_id) THEN FALSE
    ELSE IF "user_id" \notin DOMAIN record THEN FALSE
    ELSE IF record.user_id = NoUser THEN TRUE
    ELSE record.user_id = user_id

\* verify_user_ownership(record, allow_none)
verify_user_ownership(record, allow_none, gg) ==
    LET user_id == get_current_user_id(gg) IN
    IF ~Truthy(user_id) THEN FALSE
    ELSE IF "user_id" \notin DOMAIN record THEN FALSE
    ELSE IF record.user_id = NoUser /\ allow_none THEN TRUE
    ELSE record.user_id = user_id

\* a service update / delete method checks ownership of a record
Verify ==
    /\ \E record \in Records, allow_none \in BOOLEAN :
          result' = [ record |-> record,
                      allow_none |-> allow_none,
                      user_id |-> get_current_user_id(g),
                      owns |-> verify_user_ownership(record, allow_none, g) ]
    /\ UNCHANGED g
    /\ UNCHANGED filterOthers

NextFilter == BeforeRequest \/ Query \/ Create \/ Verify

SpecFilter == InitFilter /\ [][NextFilter]_vars

\* C30: with an identity present a filtered query returns only records of
\* that user, and all of them, so the result does not depend on the
\* records of others; without identity it returns the query unchanged.
\* Violated: a query on RoutineItem is returned unfiltered.
C30_FilterIsolates ==
    "rows" \in DOMAIN result =>
        LET all == db[TableOf(result.model)] IN
        IF result.user_id # NoUser
        THEN result.rows = RowsOf(db, TableOf(result.model), result.user_id)
        ELSE result.rows = all

----------------------------------------------------------------------------
(* Part 6: a webhook and a pause / unpause request served at the same      *)
(* time.  Each handler of app/billing.py loads the row with                *)
(* db.query(Subscription)...first(), assigns attributes and calls          *)
(* db.commit(); no handler locks the row.  The UPDATE the commit flushes   *)
(* sets the columns whose value differs from the loaded one.               *)

\* the row after the UPDATE of a session that loaded `loaded` and holds
\* `held` at commit, applied to the row as it is in the table then
Flush(stored, loaded, held) ==
    [ c \in DOMAIN stored |->
        IF held[c] # loaded[c] THEN held[c] ELSE stored[c] ]

\* the table after the commit of a session that loaded `loaded` and holds
\* `held`
Commit(table, loaded, held) ==
    [ u \in DOMAIN table |-> Flush(table[u], loaded[u], held[u]) ]

\* the table a webhook session holds at its commit
WebhookHeld(loaded, t) ==
    Delivered(loaded, t.ev, <<t.at, t.at>>, t.newest)

\* the table a pause or unpause session holds at its commit
UserHeld(loaded, t) ==
    IF t.op = "pause"
    THEN set_unplugged_mode(loaded, t.req[1], t.req[2], t.at, t.newest).subs
    ELSE unpause_subscription(loaded, t.req[1], t.req[2], t.at).subs

\* the webhooks of the race: the deletions and the updates at one price
RaceEvents ==
    DeletedEvents
        \cup { e \in UpdatedEvents : e.price = Price(BasicMonthly, 300, "month") }

\* the requests of the race: the tenant's, with each outcome of the Stripe
\* call
RaceRequests == { <<1, stripe>> : stripe \in StripeOutcomes }

\* both requests arrive and load the row
RaceBegin ==
    /\ txn.pc = "idle"
    /\ \E ev \in RaceEvents, newest \in NewestIds(routines),
          op \in {"pause", "unpause"}, req \in RaceRequests :
          txn' = [ pc |-> "both", loaded |-> subscriptions, ev |-> ev,
                   newest |-> newest, op |-> op, req |-> req, at |-> now ]
    /\ UNCHANGED <<subscriptions, routines, now>>
    /\ UNCHANGED <<quotaVars, accountVars, g, result, resetVars>>

\* the webhook handler commits
CommitWebhook ==
    /\ txn.pc \in {"both", "webhook"}
    /\ subscriptions' =
          Commit(subscriptions, txn.loaded, WebhookHeld(txn.loaded, txn))
    /\ txn' = [txn EXCEPT !.pc = IF txn.pc = "both" THEN "user" ELSE "done"]
    /\ UNCHANGED <<routines, now>>
    /\ UNCHANGED <<quotaVars, accountVars, g, result, resetVars>>

\* the pause / unpause handler commits
CommitUser ==
    /\ txn.pc \in {"both", "user"}
    /\ subscriptions' =
          Commit(subscriptions, txn.loaded, UserHeld(txn.loaded, txn))
    /\ txn' = [txn EXCEPT !.pc = IF txn.pc = "both" THEN "webhook" ELSE "done"]
    /\ UNCHANGED <<routines, now>>
    /\ UNCHANGED <<quotaVars, accountVars, g, result, resetVars>>

\* both responses are sent
RaceEnd ==
    /\ txn.pc = "done"
    /\ txn' = [pc |-> "idle"]
    /\ UNCHANGED <<subscriptions, routines, now>>
    /\ UNCHANGED <<quotaVars, accountVars, g, result, resetVars>>

\* requests served one after the other, as in Part 1
Sequential == txn.pc = "idle" /\ Next

NextRace ==
    Sequential \/ RaceBegin \/ CommitWebhook \/ CommitUser \/ RaceEnd

SpecRace == Init /\ [][NextRace]_vars

\* C27: when a webhook handler and a pause / unpause request were served
\* at the same time, the table is what serving the two one after the
\* other, in one of the two orders, would have left.
C27_SerialOutcome ==
    txn.pc = "done" =>
        \/ subscriptions = UserHeld(WebhookHeld(txn.loaded, txn), txn)
        \/ subscriptions = WebhookHeld(UserHeld(txn.loaded, txn), txn)

\* C31: the user_id of a created record comes from the request context:
\* a record that leaves set_user_id_on_create with a user_id has the
\* identity of the context, never one the payload supplied.  Violated:
\* without identity the payload's user_id is kept.
C31_UserIdFromContext ==
    "created" \in DOMAIN result =>
        ("user_id" \in DOMAIN result.created =>
            /\ result.user_id # NoUser
            /\ result.created.user_id = result.user_id)

\* C32: verify_user_ownership with allow_none = False returns True exactly
\* when an identity is present and the record has a user_id equal to it.
C32_OwnershipCheck ==
    ("owns" \in DOMAIN result /\ ~result.allow_none) =>
        (result.owns <=>
            /\ result.user_id # NoUser
            /\ "user_id" \in DOMAIN result.record
            /\ result.record.user_id = result.user_id)

\* C32 witness: user 2 is refused a record of user 1
C32_Witness ==
    /\ "owns" \in DOMAIN result
    /\ ~result.allow_none
    /\ result.user_id = 2
    /\ "user_id" \in DOMAIN result.record
    /\ result.record.user_id = 1
    /\ ~result.owns

----------------------------------------------------------------------------
(* Part 7: the billing state machine of Part 1 for a tenant who may own    *)
(* two routines created at the same time.                                  *)

\* two routines with equal created_at
TiedRoutines ==
    { [id |-> 1, created_at |-> FirstCreatedAt],
      [id |-> 2, created_at |-> FirstCreatedAt] }

InitTies ==
    /\ subscriptions = [u \in Users |-> NewSubscription(u)]
    /\ routines \in RoutineTables \cup {TiedRoutines}
    /\ now = 0
    /\ QuotaParked
    /\ AccountsParked

SpecTies == InitTies /\ [][Next]_vars

\* the routine with the latest created_at, the highest id among equals
LatestRoutineId(rts) ==
    IF rts = {} THEN NoId
    ELSE LET r == CHOOSE x \in rts :
                    \A o \in rts :
                        \/ o.created_at < x.created_at
                        \/ o.created_at = x.created_at /\ o.id <= x.id
         IN r.id

\* C33: a successful pause, and a subscription.deleted event that opens
\* the grace period, leave last_active_routine_id as it was when a routine
\* was recorded, and otherwise set it to the routine with the latest
\* created_at, the highest id among equals.  Violated: the query orders
\* by created_at only, and among equals the database may return either.
C33_PreservedRoutineDeterministic ==
    \A u \in Users, n \in NewestIds(routines) :
        LET old == subscriptions[u].last_active_routine_id
            expected == IF old # NoId THEN old ELSE LatestRoutineId(routines)
            paused == set_unplugged_mode(subscriptions, u, "ok", now, n)
        IN
        /\ paused.code = 200 =>
              paused.subs[u].last_active_routine_id = expected
        /\ \A ev \in DeletedEvents :
              (Matches(u, ev.id) /\ ev.reason = "cancellation_requested") =>
                 Delivered(subscriptions, ev, <<now, now>>, n)[u]
                     .last_active_routine_id = expected

----------------------------------------------------------------------------
(* Properties of the grace fields, under Spec *)

\* C34: in every reachable state a row with unplugged_mode set has a
\* lapse_date, and an unpause request for a row that is not unplugged is
\* refused and changes nothing; every step that takes unplugged_mode from
\* set to unset leaves lapse_date and data_deletion_date cleared.
C34_GraceFieldsConsistent ==
    /\ [](\A u \in Users :
            /\ subscriptions[u].unplugged_mode =>
                  subscriptions[u].lapse_date # NoTime
            /\ ~subscriptions[u].unplugged_mode =>
                  \A req \in UserRequests :
                      LET r == unpause_subscription(subscriptions, req[1],
                                                    req[2], now)
                      IN  r.code # 200 /\ r.subs = subscriptions)
    /\ [][\A u \in Users :
            (subscriptions[u].unplugged_mode
                /\ ~subscriptions'[u].unplugged_mode) =>
                /\ subscriptions'[u].lapse_date = NoTime
                /\ subscriptions'[u].data_deletion_date = NoTime]_vars

\* C34 witness: the tenant is in the grace period, with a subscription
\* stored again, and a payment-succeeded event for it ends the grace
\* period
C34_Witness ==
    /\ subscriptions[1].unplugged_mode
    /\ subscriptions[1].lapse_date # NoTime
    /\ subscriptions[1].data_deletion_date # NoTime
    /\ \E ev \in PaymentSucceededEvents :
          LET after == Delivered(subscriptions, ev, <<now, now>>, NoId) IN
          /\ ~after[1].unplugged_mode
          /\ after[1].lapse_date = NoTime
          /\ after[1].data_deletion_date = NoTime

----------------------------------------------------------------------------
(* Part 8: the password-reset rate limiter of app/rate_limiter.py.  Time   *)
(* is time.time() in seconds; the clock of the model advances in steps.    *)

ClockStep == 600     \* seconds between two readings of the clock
MaxClockSteps == 7   \* the clock runs over 0..MaxClockSteps * ClockStep

Minute == 60
HalfHour == 30 * 60
Hour == 60 * 60
Day == 24 * 60 * 60
PerMinute == 2
PerHalfHour == 5
PerHour == 10

\* the addresses a request may carry, as typed
RawEmails == { "a@x.org", " A@X.org " }

\* email.lower().strip()
Normalised(email) ==
    CASE email = " A@X.org " -> "a@x.org"
      [] OTHER -> email

\* [ts for ts in attempts if ts > cutoff]
Since(attempts, cutoff) == SelectSeq(attempts, LAMBDA ts : ts > cutoff)

\* the list stored for an email: empty when there is none
AttemptsOf(store, email) ==
    IF email \in DOMAIN store THEN store[email] ELSE << >>

\* store with the list of email replaced
Stored(store, email, attempts) ==
    [ e \in DOMAIN store \cup {email} |->
        IF e = email THEN attempts ELSE store[e] ]

\* the three limits, each letting one request more through
Refusal_lenient(attempts, t) ==
    IF Len(Since(attempts, t - Hour)) > PerHour THEN "wait 24 hours"
    ELSE IF Len(Since(attempts, t - HalfHour)) > PerHalfHour
    THEN "wait 30 minutes"
    ELSE IF Len(Since(attempts, t - Minute)) > PerMinute
    THEN "wait 1 minute"
    ELSE None

\* the three limits, on the attempts of the last 24 hours
Refusal(attempts, t) ==
    IF Len(Since(attempts, t - Hour)) >= PerHour THEN "wait 24 hours"
    ELSE IF Len(Since(attempts, t - HalfHour)) >= PerHalfHour
    THEN "wait 30 minutes"
    ELSE IF Len(Since(attempts, t - Minute)) >= PerMinute
    THEN "wait 1 minute"
    ELSE None

\* _check_email_memory: the pruned list is stored back before the limits
\* are looked at
check_email_memory(store, email, t) ==
    LET attempts == Since(AttemptsOf(store, email), t - Day)
        refusal == Refusal(attempts, t)
    IN  IF refusal # None
        THEN [store |-> Stored(store, email, attempts),
              allowed |-> FALSE, message |-> refusal]
        ELSE [store |-> Stored(store, email, Append(attempts, t)),
              allowed |-> TRUE, message |-> None]

\* _check_email_redis: the key is rewritten only when the request is
\* allowed
check_email_redis(store, email, t) ==
    LET attempts == Since(AttemptsOf(store, email), t - Day)
        refusal == Refusal(attempts, t)
    IN  IF refusal # None
        THEN [store |-> store, allowed |-> FALSE, message |-> refusal]
        ELSE [store |-> Stored(store, email, Append(attempts, t)),
              allowed |-> TRUE, message |-> None]

\* check_email_rate_limit
check_email_rate_limit(lim, email, t) ==
    IF lim.use_redis
    THEN check_email_redis(lim.attempts, Normalised(email), t)
    ELSE check_email_memory(lim.attempts, Normalised(email), t)

InitReset ==
    /\ \E use_redis \in BOOLEAN :
          limiter = [ use_redis |-> use_redis, attempts |-> << >> ]
    /\ clock = 0
    /\ answer = [parked |-> TRUE]
    /\ g = << >>
    /\ result = [parked |-> TRUE]
    /\ txn = [pc |-> "idle"]
    /\ db = [parked |-> TRUE]
    /\ sweep = [parked |-> TRUE]
    /\ outbox = [parked |-> TRUE]
    /\ now = 0
    /\ subscriptions = [parked |-> TRUE]
    /\ routines = {}
    /\ QuotaParked

resetOthers ==
    <<subscriptions, routines, now, quotaVars, accountVars, g, result, txn>>

\* a password reset is requested for an address
CheckEmail ==
    /\ \E email \in RawEmails :
          LET r == check_email_rate_limit(limiter, email, clock) IN
          /\ limiter' = [limiter EXCEPT !.attempts = r.store]
          /\ answer' = [ email |-> Normalised(email), at |-> clock,
                         allowed |-> r.allowed, message |-> r.message ]
    /\ UNCHANGED clock
    /\ UNCHANGED resetOthers

ResetTick ==
    /\ clock < MaxClockSteps * ClockStep
    /\ clock' = clock + ClockStep
    /\ UNCHANGED <<limiter, answer>>
    /\ UNCHANGED resetOthers

NextReset == CheckEmail \/ ResetTick

SpecReset == InitReset /\ [][NextReset]_vars

\* the readings of the clock
ClockReadings == { k * ClockStep : k \in 0..MaxClockSteps }

\* allowed requests recorded for an address with lo < ts <= hi
AllowedAfter(email, lo, hi) ==
    Cardinality({ i \in 1..Len(limiter.attempts[email]) :
                    /\ limiter.attempts[email][i] > lo
                    /\ limiter.attempts[email][i] <= hi })

\* allowed requests recorded for an address with lo <= ts <= hi
AllowedFrom(email, lo, hi) ==
    Cardinality({ i \in 1..Len(limiter.attempts[email]) :
                    /\ limiter.attempts[email][i] >= lo
                    /\ limiter.attempts[email][i] <= hi })

\* C35 as stated, a span taken with both its ends: for every address, at
\* most 2 allowed requests between t - 60 s and t, at most 5 between
\* t - 30 min and t, at most 10 between t - 1 h and t, ends included.
\* Violated: a request exactly 30 minutes after the first of five is
\* allowed.
C35_LimitsInClosedSpans ==
    \A email \in DOMAIN limiter.attempts, t \in ClockReadings :
        /\ AllowedFrom(email, t - Minute, t) <= PerMinute
        /\ AllowedFrom(email, t - HalfHour, t) <= PerHalfHour
        /\ AllowedFrom(email, t - Hour, t) <= PerHour

\* C35: for every address and every time t, at most 2 allowed requests
\* later than t - 60 s and up to t, at most 5 later than t - 30 min, at
\* most 10 later than t - 1 h.
C35_EmailLimits ==
    \A email \in DOMAIN limiter.attempts, t \in ClockReadings :
        /\ AllowedAfter(email, t - Minute, t) <= PerMinute
        /\ AllowedAfter(email, t - HalfHour, t) <= PerHalfHour
        /\ AllowedAfter(email, t - Hour, t) <= PerHour

\* C35 witness: five requests were allowed in the last 30 minutes and the
\* request just made was refused for it
C35_Witness ==
    /\ "allowed" \in DOMAIN answer
    /\ ~answer.allowed
    /\ answer.message = "wait 30 minutes"
    /\ answer.at = clock
    /\ AllowedAfter(answer.email, clock - HalfHour, clock) = PerHalfHour

\* C36: once ten requests for an address were allowed within one hour, no
\* request for it is allowed during the 24 hours after the tenth.
\* Violated: the refusal lasts only while ten attempts lie in the last
\* hour.
C36_BlockedForADay ==
    \A email \in DOMAIN limiter.attempts :
        LET att == limiter.attempts[email] IN
        \A i, j \in 1..Len(att) :
            ( /\ i >= PerHour
              /\ att[i] - att[i - PerHour + 1] < Hour
              /\ i < j )
            => att[j] - att[i] >= Day

----------------------------------------------------------------------------
(* Usage made after a window has passed *)

\* the row after the allowed operation succeeds at time t and the tenant's
\* following check runs at time t2
CheckAfterIncrement(q, t, t2) ==
    check_autocreate_rate_limit(
        IncrementWrite(q, IncrementRead(q, t)), t2, FALSE, "none").q

\* C37: usage is counted in the window in which it occurs. When the
\* allowed operation succeeds after the stored reset time of a window has
\* passed, the increment belongs to the window that has begun, and the
\* check that follows in that same window still counts it: the hourly
\* counter is at least 1 after a check in the same hour, the daily counter
\* at least 1 after a check on the same day.
C37_UsageCountedInItsWindow ==
    (callers[1].pc = "allowed" /\ quota.status = "active") =>
        \A t2 \in qclock..(QStart + ClockSpan) :
            /\ (HourlyPassed /\ t2 < NextHour(qclock)) =>
                 CheckAfterIncrement(quota, qclock, t2)
                     .autocreate_calls_this_hour >= 1
            /\ (DailyPassed /\ t2 < NextMidnight(qclock)) =>
                 CheckAfterIncrement(quota, qclock, t2)
                     .autocreate_calls_today >= 1

----------------------------------------------------------------------------
(* Double subscription and the order of delivery *)

\* the instructions sent to the billing provider when the webhook receives
\* first, then second, each verified
CallsInOrder(subs, first, second) ==
    LET r1 == handle_stripe_webhook(subs, "ok", first, now, now, NoId)
        r2 == handle_stripe_webhook(r1.subs, "ok", second, now, now, NoId)
    IN  {r1.call, r2.call}

\* C38: double-subscribe detection does not depend on the order of delivery.
\* For a tenant whose row stores subscription X with status active, once
\* checkout.session.completed and customer.subscription.created for another
\* subscription Y have both been processed, in either order, Stripe has
\* been told to cancel X.
C38_DoubleSubscribeAnyOrder ==
    \A session \in CheckoutEvents, ev \in CreatedEvents :
        ( /\ session.user_id \in Users
          /\ ev.user_id = session.user_id
          /\ ev.id = session.subscription
          /\ subscriptions[ev.user_id].status = "active"
          /\ subscriptions[ev.user_id].stripe_subscription_id # None
          /\ subscriptions[ev.user_id].stripe_subscription_id # ev.id )
        =>
        LET X == subscriptions[ev.user_id].stripe_subscription_id IN
            /\ CancelCall(X) \in CallsInOrder(subscriptions, ev, session)
            /\ CancelCall(X) \in CallsInOrder(subscriptions, session, ev)

----------------------------------------------------------------------------
(* Checkout sessions for tenants who are already subscribed *)

\* the tenant's row stores a Stripe subscription and is active or trialing
Subscribed(u) ==
    /\ subscriptions[u].stripe_subscription_id # None
    /\ subscriptions[u].status \in {"active", "trialing"}

\* a request that was refused and sent to the change-tier path: no call to
\* Stripe, status 400 with use_update_endpoint
SentToChangeTier(r) ==
    /\ r.call = NoCall
    /\ r.code = 400
    /\ r.status = "use_update_endpoint"

\* C39: no user entry point opens a checkout session for a tenant who is
\* already subscribed. For a tenant whose row stores a Stripe subscription
\* with status active or trialing, create_checkout_session and
\* resume_subscription both make no call to Stripe and answer with the
\* refusal that directs the tenant to the change-tier path.
C39_NoCheckoutWhenSubscribed ==
    \A u \in Users, stripe \in StripeOutcomes :
        Subscribed(u) =>
            /\ \A plan \in PlanChoices :
                 plan[1] \in PaidTiers =>
                    SentToChangeTier(create_checkout_session(
                        subscriptions, u, plan[1], plan[2], stripe))
            /\ SentToChangeTier(resume_subscription(subscriptions, u, stripe))

----------------------------------------------------------------------------
(* Account deletion is all or nothing *)

\* database d with every row of user u removed and nothing else changed
WithoutUser(d, u) == [t \in Tables |-> d[t] \ RowsOf(d, t, u)]

====
